---- MODULE Spec2Model ----
(***************************************************************************)
(* Model of the ARIA role locators of python-se: the role-resolution       *)
(* engine (utils/aria_locators.py), the W3C BiDi accessibility client      *)
(* (utils/bidi_locators.py) and the WebDriver extensions                   *)
(* (utils/webdriver_extensions.py).                                        *)
(*                                                                         *)
(* A Python str is a TLA+ string; None, str and bool values that share a   *)
(* variable are wrapped in a record (PyNone, PyStr, PyBool) so that they   *)
(* can be compared.  A dict that is iterated in insertion order is a       *)
(* sequence of [k, v] entries.  An element handle is the position of the   *)
(* element in the page.                                                    *)
(***************************************************************************)
EXTENDS Integers, Sequences, FiniteSets, TLC

VARIABLES
    page,       \* the document the session shows
    driver,     \* the session handle and what it is able to do
    cfg,        \* the engine's LocatorConfig
    eng,        \* the engine instance: bidi_locator and the client's caches
    installed,  \* the find methods attached to the WebDriver class
    signalled,  \* whether a call on this session got the 'not available' signal
    last,       \* the record of the last call
    out         \* the selections of the last application of the three filters

vars == <<page, driver, cfg, eng, installed, signalled, last, out>>

-----------------------------------------------------------------------------
(* Python values *)

PyNone == [t |-> "none", s |-> "", b |-> FALSE, vt |-> "", ty |-> ""]
PyStr(x) == [t |-> "str", s |-> x, b |-> FALSE, vt |-> "", ty |-> ""]
PyBool(x) == [t |-> "bool", s |-> "", b |-> x, vt |-> "", ty |-> ""]

\* The dict {"type": ty, "value": v} in which CDP wraps a value
Envelope(ty, v) == [t |-> "dict", s |-> v.s, b |-> v.b, vt |-> v.t, ty |-> ty]

\* d.get("value") of such a dict
ValueOf(d) == [t |-> d.vt, s |-> d.s, b |-> d.b, vt |-> "", ty |-> ""]

\* bool(v): None, "" and False are falsy
Truthy(v) == CASE v.t = "none" -> FALSE
               [] v.t = "str" -> v.s # ""
               [] v.t = "bool" -> v.b
               [] v.t = "dict" -> TRUE

\* f"{v}": how a value is printed inside a formatted string
Format(v) == CASE v.t = "none" -> "None"
               [] v.t = "str" -> v.s
               [] v.t = "bool" -> IF v.b THEN "True" ELSE "False"
               [] v.t = "dict" -> "{...}"

RECURSIVE lstrip(_)
lstrip(s) == IF Len(s) > 0 /\ SubSeq(s, 1, 1) = " "
             THEN lstrip(SubSeq(s, 2, Len(s))) ELSE s

RECURSIVE rstrip(_)
rstrip(s) == IF Len(s) > 0 /\ SubSeq(s, Len(s), Len(s)) = " "
             THEN rstrip(SubSeq(s, 1, Len(s) - 1)) ELSE s

\* str.strip()
strip(s) == rstrip(lstrip(s))

LowerChar(c) == CASE c = "A" -> "a" [] c = "B" -> "b" [] c = "C" -> "c" [] c = "D" -> "d"
                  [] c = "E" -> "e" [] c = "F" -> "f" [] c = "G" -> "g" [] c = "H" -> "h"
                  [] c = "I" -> "i" [] c = "J" -> "j" [] c = "K" -> "k" [] c = "L" -> "l"
                  [] c = "M" -> "m" [] c = "N" -> "n" [] c = "O" -> "o" [] c = "P" -> "p"
                  [] c = "Q" -> "q" [] c = "R" -> "r" [] c = "S" -> "s" [] c = "T" -> "t"
                  [] c = "U" -> "u" [] c = "V" -> "v" [] c = "W" -> "w" [] c = "X" -> "x"
                  [] c = "Y" -> "y" [] c = "Z" -> "z"
                  [] OTHER -> c

RECURSIVE lower(_)
\* str.lower()
lower(s) == IF s = "" THEN ""
            ELSE LowerChar(SubSeq(s, 1, 1)) \o lower(SubSeq(s, 2, Len(s)))

\* sub in s
contains(sub, s) ==
    \E i \in 1..(Len(s) - Len(sub) + 1) : SubSeq(s, i, i + Len(sub) - 1) = sub

\* F applied to the one member of S: S holds the value of a statement that is
\* executed once and whose result the code after it uses
Bind(S, F(_)) == CHOOSE y \in {F(v) : v \in S} : TRUE

-----------------------------------------------------------------------------
(* dicts in insertion order *)

Keys(d) == {d[i].k : i \in 1..Len(d)}

HasKey(d, key) == key \in Keys(d)

\* d[key], for a key of d
Get(d, key) == d[CHOOSE i \in 1..Len(d) : d[i].k = key].v

\* d.get(key): None for a missing key
GetOrNone(d, key) == IF HasKey(d, key) THEN Get(d, key) ELSE PyNone

\* d[key] = value: an existing key keeps its place, a new one goes last
Put(d, key, value) ==
    IF HasKey(d, key)
    THEN [i \in 1..Len(d) |-> IF d[i].k = key THEN [k |-> key, v |-> value] ELSE d[i]]
    ELSE Append(d, [k |-> key, v |-> value])

\* {k: v for k, v in d.items() if k != key}
Without(d, key) == SelectSeq(d, LAMBDA e : e.k # key)

-----------------------------------------------------------------------------
(* The page: DOM elements and the accessibility nodes the browser reports *)

AttrNames == {"type", "role", "href", "id", "for", "name", "data-testid",
              "aria-label", "aria-labelledby", "placeholder", "title"}

NoAttrs == [a \in AttrNames |-> PyNone]

\* A DOM element: tag, attributes, class list, rendered text and the text of
\* its nearest ancestor label (None when it has none).
Elem(tag, attrs, classes, text, ancestor_label) ==
    [tag |-> tag, attrs |-> attrs, classes |-> classes, text |-> text,
     ancestor_label |-> ancestor_label]

\* An accessibility node as Accessibility.getFullAXTree reports it: role and
\* name (inside a {type, value} envelope or plain), properties, whether it
\* carries a backendDOMNodeId, and what DOM.resolveNode answers for it.
AXNode(role, name, properties, has_backend, resolve) ==
    [present |-> TRUE, role |-> role, name |-> name,
     properties |-> properties, has_backend |-> has_backend, resolve |-> resolve]

\* An element the accessibility tree does not report
NoAXNode == [present |-> FALSE, role |-> PyNone, name |-> PyNone,
             properties |-> <<>>, has_backend |-> FALSE, resolve |-> "raise"]

Prop(name, value) == [name |-> name, value |-> value]

Widget(el, ax) == [el |-> el, ax |-> ax]

Handles(pg) == 1..Len(pg)

-----------------------------------------------------------------------------
(* Role tables *)

\* One alternative of a CSS selector list: tag (or "*"), and one attribute test
Sel(tag, attr, test, val) == [tag |-> tag, attr |-> attr, test |-> test, val |-> val]

ROLE_SELECTORS ==
    [textbox  |-> {Sel("input", "type", "eq", "text"), Sel("input", "type", "eq", "password"),
                   Sel("input", "type", "eq", "email"), Sel("input", "type", "eq", "search"),
                   Sel("input", "type", "not", ""), Sel("textarea", "", "none", "")},
     button   |-> {Sel("button", "", "none", ""), Sel("input", "type", "eq", "button"),
                   Sel("input", "type", "eq", "submit"), Sel("input", "type", "eq", "reset"),
                   Sel("*", "role", "eq", "button")},
     checkbox |-> {Sel("input", "type", "eq", "checkbox"), Sel("*", "role", "eq", "checkbox")},
     radio    |-> {Sel("input", "type", "eq", "radio"), Sel("*", "role", "eq", "radio")},
     link     |-> {Sel("a", "href", "has", ""), Sel("*", "role", "eq", "link")},
     heading  |-> {Sel("h1", "", "none", ""), Sel("h2", "", "none", ""), Sel("h3", "", "none", ""),
                   Sel("h4", "", "none", ""), Sel("h5", "", "none", ""), Sel("h6", "", "none", ""),
                   Sel("*", "role", "eq", "heading")},
     listitem |-> {Sel("li", "", "none", ""), Sel("*", "role", "eq", "listitem")},
     list     |-> {Sel("ul", "", "none", ""), Sel("ol", "", "none", ""),
                   Sel("*", "role", "eq", "list")}]

ROLE_MAPPINGS ==
    [textbox  |-> <<"textbox", "combobox", "searchbox">>,
     button   |-> <<"button">>,
     checkbox |-> <<"checkbox">>,
     radio    |-> <<"radio">>,
     link     |-> <<"link">>,
     heading  |-> <<"heading">>,
     listitem |-> <<"listitem">>,
     list     |-> <<"list">>]

\* The members of the ARIARole enum
ARIARole == {"textbox", "button", "checkbox", "radio", "link", "heading",
             "listitem", "list", "combobox", "searchbox"}

-----------------------------------------------------------------------------
(* What the session answers to plain DOM queries *)

Indices(n) == [i \in 1..n |-> i]

MatchesSimple(el, s) ==
    /\ s.tag = "*" \/ el.tag = s.tag
    /\ CASE s.test = "none" -> TRUE
         [] s.test = "eq"   -> el.attrs[s.attr] = PyStr(s.val)
         [] s.test = "has"  -> el.attrs[s.attr] # PyNone
         [] s.test = "not"  -> el.attrs[s.attr] = PyNone

\* driver.find_elements(By.CSS_SELECTOR, selector): the handles of the elements
\* matching any alternative, in document order
QuerySelectorAll(pg, selector) ==
    SelectSeq(Indices(Len(pg)), LAMBDA h : \E s \in selector : MatchesSimple(pg[h].el, s))

\* driver.find_element(By.ID, id): the first element with that id, 0 for
\* NoSuchElementException
FindById(pg, id) ==
    LET hs == SelectSeq(Indices(Len(pg)), LAMBDA h : pg[h].el.attrs["id"] = PyStr(id))
    IN IF hs = <<>> THEN 0 ELSE hs[1]

\* driver.find_element(By.CSS_SELECTOR, 'label[for="id"]')
FindLabelFor(pg, id) ==
    LET hs == SelectSeq(Indices(Len(pg)),
                        LAMBDA h : pg[h].el.tag = "label" /\ pg[h].el.attrs["for"] = PyStr(id))
    IN IF hs = <<>> THEN 0 ELSE hs[1]

-----------------------------------------------------------------------------
(* Accessible-name resolver and DOM fallback locator *)

\* A resolver that prefers the placeholder and the title to every label
_get_accessible_name_placeholder_first(pg, h, role) ==
    LET el == pg[h].el
        aria_label == el.attrs["aria-label"]
        labelledby_id == el.attrs["aria-labelledby"]
        by_ref == IF Truthy(labelledby_id) THEN FindById(pg, labelledby_id.s) ELSE 0
        element_id == el.attrs["id"]
        by_for == IF Truthy(element_id) THEN FindLabelFor(pg, element_id.s) ELSE 0
        placeholder == el.attrs["placeholder"]
        title == el.attrs["title"]
    IN IF role = "textbox" /\ Truthy(placeholder) THEN PyStr(strip(placeholder.s))
       ELSE IF Truthy(title) THEN PyStr(strip(title.s))
       ELSE IF Truthy(aria_label) THEN PyStr(strip(aria_label.s))
       ELSE IF by_ref # 0 THEN PyStr(strip(pg[by_ref].el.text))
       ELSE IF role \in {"button", "link"} /\ strip(el.text) # "" THEN PyStr(strip(el.text))
       ELSE IF by_for # 0 THEN PyStr(strip(pg[by_for].el.text))
       ELSE IF el.ancestor_label # PyNone THEN PyStr(strip(el.ancestor_label.s))
       ELSE PyNone

_get_accessible_name(pg, h, role) ==
    LET el == pg[h].el
        aria_label == el.attrs["aria-label"]
        labelledby_id == el.attrs["aria-labelledby"]
        by_ref == IF Truthy(labelledby_id) THEN FindById(pg, labelledby_id.s) ELSE 0
        element_id == el.attrs["id"]
        by_for == IF Truthy(element_id) THEN FindLabelFor(pg, element_id.s) ELSE 0
        placeholder == el.attrs["placeholder"]
        title == el.attrs["title"]
    IN IF Truthy(aria_label) THEN PyStr(strip(aria_label.s))
       ELSE IF by_ref # 0 THEN PyStr(strip(pg[by_ref].el.text))
       ELSE IF role \in {"button", "link"} /\ strip(el.text) # "" THEN PyStr(strip(el.text))
       ELSE IF by_for # 0 THEN PyStr(strip(pg[by_for].el.text))
       ELSE IF el.ancestor_label # PyNone THEN PyStr(strip(el.ancestor_label.s))
       ELSE IF role = "textbox" /\ Truthy(placeholder) THEN PyStr(strip(placeholder.s))
       ELSE IF Truthy(title) THEN PyStr(strip(title.s))
       ELSE PyNone

\* A filter test that compares names without regard to letter case
_element_matches_filters_ignoring_case(pg, h, role, filters) ==
    IF filters = <<>> THEN TRUE
    ELSE \A i \in 1..Len(filters) :
            filters[i].k = "name" =>
               Bind({_get_accessible_name(pg, h, role)}, LAMBDA actual :
                  /\ actual.t = filters[i].v.t
                  /\ lower(actual.s) = lower(filters[i].v.s))

_element_matches_filters(pg, h, role, filters) ==
    IF filters = <<>> THEN TRUE
    ELSE \A i \in 1..Len(filters) :
            filters[i].k = "name" => _get_accessible_name(pg, h, role) = filters[i].v

\* A name filter that selects nothing when no filter is given
_filter_dropping_unfiltered(pg, elements, role, filters) ==
    SelectSeq(elements, LAMBDA h : filters # <<>> /\ _element_matches_filters(pg, h, role, filters))

_filter_by_accessible_name(pg, elements, role, filters) ==
    IF filters = <<>> THEN elements
    ELSE SelectSeq(elements, LAMBDA h : _element_matches_filters(pg, h, role, filters))

\* A DOM fallback that searches every element for a role it has no selector for
_find_via_dom_any_tag(drv, pg, role, filters) ==
    IF drv.dom = "raises" THEN <<>>
    ELSE _filter_by_accessible_name(pg,
            QuerySelectorAll(pg, IF role \in DOMAIN ROLE_SELECTORS THEN ROLE_SELECTORS[role]
                                 ELSE {Sel("*", "", "none", "")}),
            role, filters)

\* selector = self.ROLE_SELECTORS.get(role): {} stands for None
RoleSelector(role) == IF role \in DOMAIN ROLE_SELECTORS THEN ROLE_SELECTORS[role] ELSE {}

\* The selectors _find_via_dom hands to driver.find_elements
DomQueries(drv, pg, role) ==
    IF RoleSelector(role) = {} THEN <<>> ELSE <<RoleSelector(role)>>

\* A failing DOM query is caught and answered with the empty list.
_find_via_dom(drv, pg, role, filters) ==
    IF role \notin DOMAIN ROLE_SELECTORS THEN <<>>
    ELSE IF drv.dom = "raises" THEN <<>>
    ELSE _filter_by_accessible_name(pg, QuerySelectorAll(pg, ROLE_SELECTORS[role]), role, filters)

-----------------------------------------------------------------------------
(* Accessibility-tree locator (CDP) *)

\* Accessibility.getFullAXTree: the handles of the elements that have a node,
\* in tree order; node h is pg[h].ax and its backendDOMNodeId, if any, is h
AXTree(pg) == SelectSeq(Indices(Len(pg)), LAMBDA h : pg[h].ax.present)

InList(x, list) == \E i \in 1..Len(list) : list[i] = x

\* A role test that knows only the first role of the list
_node_has_first_role(node, target_roles) ==
    LET node_role == node.role
        actual_role == IF node_role.t = "dict" THEN ValueOf(node_role) ELSE node_role
    IN target_roles # <<>> /\ actual_role = PyStr(target_roles[1])

_node_has_role(node, target_roles) ==
    LET node_role == node.role
        actual_role == IF node_role.t = "dict" THEN ValueOf(node_role) ELSE node_role
    IN \E i \in 1..Len(target_roles) : actual_role = PyStr(target_roles[i])

_get_node_property(node, property_name) ==
    LET ps == SelectSeq(node.properties, LAMBDA p : p.name = property_name)
    IN IF ps = <<>> THEN PyNone
       ELSE IF ps[1].value.t = "dict" THEN ValueOf(ps[1].value)
       ELSE ps[1].value

\* A coercion that knows only the lower-case spelling of true
_convert_to_bool_exact(value) ==
    CASE value.t = "bool" -> value.b
      [] value.t = "str"  -> value.s = "true"
      [] OTHER            -> FALSE

_convert_to_bool(value) ==
    CASE value.t = "bool" -> value.b
      [] value.t = "str"  -> lower(value.s) = "true"
      [] OTHER            -> FALSE

_node_matches_filters(node, filters) ==
    IF filters = <<>> THEN TRUE
    ELSE \A i \in 1..Len(filters) :
            LET expected == filters[i].v
                prop == _get_node_property(node, filters[i].k)
                actual == IF expected.t = "bool" THEN PyBool(_convert_to_bool(prop)) ELSE prop
            IN actual = expected

Part(kind, name, v) == [kind |-> kind, name |-> name, v |-> v]

Min(a, b) == IF a < b THEN a ELSE b

\* The selector is the sequence of its parts; <<>> stands for None
_build_selector_from_node(node_info) ==
    LET tag_name == lower(node_info.tag)
        attr(a) == IF Truthy(node_info.attrs[a])
                   THEN <<Part("attr", a, node_info.attrs[a].s)>> ELSE <<>>
        id == IF Truthy(node_info.attrs["id"])
              THEN <<Part("id", "id", node_info.attrs["id"].s)>> ELSE <<>>
        classes == [i \in 1..Min(2, Len(node_info.classes)) |->
                        Part("class", "class", node_info.classes[i])]
        selector_parts == <<Part("tag", "", tag_name)>> \o id \o classes
                          \o attr("name") \o attr("type") \o attr("data-testid")
    IN IF tag_name = "" THEN <<>>
       ELSE IF Len(selector_parts) > 1 THEN selector_parts ELSE <<>>

\* The conditions of the script; <<>> stands for None
_build_find_script(tag_name, node_info) ==
    LET attr(a) == IF Truthy(node_info.attrs[a])
                   THEN <<Part("attr", a, node_info.attrs[a].s)>> ELSE <<>>
        conditions == <<Part("tag", "", lower(tag_name))>> \o attr("id") \o attr("name")
                      \o attr("type") \o attr("data-testid")
    IN IF tag_name = "" THEN <<>>
       ELSE IF Len(conditions) > 1 THEN conditions ELSE <<>>

MatchesPart(el, p) ==
    CASE p.kind = "tag"   -> lower(el.tag) = p.v
      [] p.kind = "id"    -> el.attrs["id"] = PyStr(p.v)
      [] p.kind = "class" -> InList(p.v, el.classes)
      [] p.kind = "attr"  -> el.attrs[p.name] = PyStr(p.v)

\* The elements a compound selector (or the script's loop) matches, in
\* document order
QueryCompound(pg, parts) ==
    SelectSeq(Indices(Len(pg)),
              LAMBDA h : \A i \in 1..Len(parts) : MatchesPart(pg[h].el, parts[i]))

\* One resolution method tried for a node: which one, how it ended ("element",
\* "nothing" or "raises"), and the handle it produced (0 when none)
Attempt(method, outcome, element) == [method |-> method, outcome |-> outcome, element |-> element]

\* Method 1: DOM.resolveNode and execute_script.  The node's resolve field says
\* what the session answers for its backend id: "ok", "no_object" (an answer
\* without object), "raise" (DOM.resolveNode raises) or "dead" (DOM.resolveNode
\* and DOM.describeNode both raise)
ResolveDirect(pg, h) ==
    CASE pg[h].ax.resolve = "ok"        -> Attempt("direct", "element", h)
      [] pg[h].ax.resolve = "no_object" -> Attempt("direct", "nothing", 0)
      [] OTHER                          -> Attempt("direct", "raises", 0)

\* Method 2: DOM.describeNode, selector, first match of the DOM query, which
\* raises on a session whose DOM queries raise
ResolveBySelector(drv, pg, h) ==
    LET selector == _build_selector_from_node(pg[h].el)
        elements == IF selector = <<>> THEN <<>> ELSE QueryCompound(pg, selector)
    IN IF pg[h].ax.resolve = "dead" THEN Attempt("selector", "raises", 0)
       ELSE IF selector # <<>> /\ drv.dom = "raises" THEN Attempt("selector", "raises", 0)
       ELSE IF elements = <<>> THEN Attempt("selector", "nothing", 0)
       ELSE Attempt("selector", "element", elements[1])

\* Method 3: DOM.describeNode, script, the first element the script returns
ResolveByScript(pg, h) ==
    LET script == _build_find_script(pg[h].el.tag, pg[h].el)
        elements == IF script = <<>> THEN <<>> ELSE QueryCompound(pg, script)
    IN IF pg[h].ax.resolve = "dead" THEN Attempt("script", "raises", 0)
       ELSE IF elements = <<>> THEN Attempt("script", "nothing", 0)
       ELSE Attempt("script", "element", elements[1])

\* A resolution that tries the script first and the backend id last
ResolveAttemptsScriptFirst(drv, pg, h) ==
    IF ~pg[h].ax.has_backend THEN <<>>
    ELSE IF ResolveByScript(pg, h).element # 0 THEN <<ResolveByScript(pg, h)>>
    ELSE IF ResolveBySelector(drv, pg, h).element # 0
    THEN <<ResolveByScript(pg, h), ResolveBySelector(drv, pg, h)>>
    ELSE <<ResolveByScript(pg, h), ResolveBySelector(drv, pg, h), ResolveDirect(pg, h)>>

\* The methods _convert_node_to_element tries for node h, in the order tried
ResolveAttempts(drv, pg, h) ==
    IF ~pg[h].ax.has_backend THEN <<>>
    ELSE IF ResolveDirect(pg, h).element # 0 THEN <<ResolveDirect(pg, h)>>
    ELSE IF ResolveBySelector(drv, pg, h).element # 0
    THEN <<ResolveDirect(pg, h), ResolveBySelector(drv, pg, h)>>
    ELSE <<ResolveDirect(pg, h), ResolveBySelector(drv, pg, h), ResolveByScript(pg, h)>>

\* 0 stands for None
_convert_node_to_element(drv, pg, h) ==
    Bind({ResolveAttempts(drv, pg, h)}, LAMBDA tried :
       IF tried = <<>> THEN 0 ELSE tried[Len(tried)].element)

RECURSIVE _process_tree_nodes_stopping(_, _, _, _, _)
\* A walk of the tree that ends at the first matching node it cannot resolve
_process_tree_nodes_stopping(drv, pg, nodes, target_role, filters) ==
    LET possible_roles == IF target_role \in DOMAIN ROLE_MAPPINGS
                          THEN ROLE_MAPPINGS[target_role] ELSE <<target_role>>
    IN IF nodes = <<>> THEN <<>>
       ELSE LET node == pg[Head(nodes)].ax
                element == _convert_node_to_element(drv, pg, Head(nodes))
            IN IF ~_node_has_role(node, possible_roles) \/ ~_node_matches_filters(node, filters)
               THEN _process_tree_nodes_stopping(drv, pg, Tail(nodes), target_role, filters)
               ELSE IF element = 0 THEN <<>>
               ELSE <<element>>
                    \o _process_tree_nodes_stopping(drv, pg, Tail(nodes), target_role, filters)

RECURSIVE _process_tree_nodes_reversed(_, _, _, _, _)
\* A walk of the tree that puts each match in front of the earlier ones
_process_tree_nodes_reversed(drv, pg, nodes, target_role, filters) ==
    LET possible_roles == IF target_role \in DOMAIN ROLE_MAPPINGS
                          THEN ROLE_MAPPINGS[target_role] ELSE <<target_role>>
    IN IF nodes = <<>> THEN <<>>
       ELSE LET node == pg[Head(nodes)].ax
                element == _convert_node_to_element(drv, pg, Head(nodes))
                rest == _process_tree_nodes_reversed(drv, pg, Tail(nodes), target_role, filters)
            IN IF ~_node_has_role(node, possible_roles) \/ ~_node_matches_filters(node, filters)
               THEN rest
               ELSE IF element = 0 THEN rest
               ELSE rest \o <<element>>

RECURSIVE _process_tree_nodes(_, _, _, _, _)
_process_tree_nodes(drv, pg, nodes, target_role, filters) ==
    LET possible_roles == IF target_role \in DOMAIN ROLE_MAPPINGS
                          THEN ROLE_MAPPINGS[target_role] ELSE <<target_role>>
    IN IF nodes = <<>> THEN <<>>
       ELSE LET node == pg[Head(nodes)].ax
                rest == _process_tree_nodes(drv, pg, Tail(nodes), target_role, filters)
                element == _convert_node_to_element(drv, pg, Head(nodes))
            IN IF ~_node_has_role(node, possible_roles) THEN rest
               ELSE IF ~_node_matches_filters(node, filters) THEN rest
               ELSE IF element # 0 THEN <<element>> \o rest
               ELSE rest

\* driver.execute_cdp_cmd(cmd, {}) raises: the session has no CDP at all, every
\* command fails, or cdp names the one command that fails
CdpFails(drv, cmd) == drv.cdp \in {"absent", "raises", cmd}

\* _enable_accessibility_apis, then the fetch of the tree
TREE_COMMANDS ==
    <<"DOM.enable", "Runtime.enable", "Accessibility.enable", "Accessibility.getFullAXTree">>

\* The CDP commands _enable_accessibility_apis and the tree fetch issue, up to
\* and including the first one that fails
TreeCommands(drv) ==
    LET failing == {i \in 1..Len(TREE_COMMANDS) : CdpFails(drv, TREE_COMMANDS[i])}
    IN IF failing = {} THEN TREE_COMMANDS
       ELSE SubSeq(TREE_COMMANDS, 1, CHOOSE i \in failing : \A j \in failing : i <= j)

\* A tree locator that fetches the tree without enabling the domains
_find_via_tree_without_enabling(drv, pg, role, filters) ==
    IF ~CdpFails(drv, "Accessibility.getFullAXTree")
    THEN [kind |-> "return", cmds |-> <<"Accessibility.getFullAXTree">>,
          elements |-> _process_tree_nodes(drv, pg, AXTree(pg), role, filters)]
    ELSE [kind |-> "AccessibilityTreeError", cmds |-> <<"Accessibility.getFullAXTree">>,
          elements |-> <<>>]

\* [kind, elements, cmds]: kind is "return" or the exception raised
_find_via_accessibility_tree(drv, pg, role, filters) ==
    IF \A i \in 1..Len(TREE_COMMANDS) : ~CdpFails(drv, TREE_COMMANDS[i])
    THEN [kind |-> "return", cmds |-> TreeCommands(drv),
          elements |-> _process_tree_nodes(drv, pg, AXTree(pg), role, filters)]
    ELSE [kind |-> "AccessibilityTreeError", cmds |-> TreeCommands(drv), elements |-> <<>>]

-----------------------------------------------------------------------------
(* Standard-locator client (W3C BiDi) *)

DEFAULT_MAX_NODE_COUNT == 1000

SUPPORTED_ACCESSIBILITY_ATTRIBUTES ==
    {"checked", "pressed", "expanded", "level", "disabled", "readonly", "required"}

BIDI_LOCATE_NODES_METHOD == "browsingContext.locateNodes"

\* BiDiAccessibilityLocator.__init__: both caches start empty
NewClient == [_bidi_available |-> PyNone, _context_id |-> PyNone]

\* A probe that answers from the session but caches the opposite answer
is_available_miscaching(c, drv) ==
    IF c._bidi_available # PyNone
    THEN [ret |-> c._bidi_available.b, client |-> c, probed |-> FALSE]
    ELSE LET found == drv.browsing_context # "absent" \/ drv.bidi_connection # "absent"
         IN [ret |-> found, client |-> [c EXCEPT !._bidi_available = PyBool(~found)],
             probed |-> TRUE]

\* A probe that asks the session every time
is_available_uncached(c, drv) ==
    LET found == drv.browsing_context # "absent" \/ drv.bidi_connection # "absent"
    IN [ret |-> found, client |-> [c EXCEPT !._bidi_available = PyBool(found)],
        probed |-> TRUE]

\* [ret, client, probed]: probed tells whether the session was asked
is_available(c, drv) ==
    IF c._bidi_available # PyNone
    THEN [ret |-> c._bidi_available.b, client |-> c, probed |-> FALSE]
    ELSE LET found == drv.browsing_context # "absent" \/ drv.bidi_connection # "absent"
         IN [ret |-> found, client |-> [c EXCEPT !._bidi_available = PyBool(found)],
             probed |-> TRUE]

is_bidi_accessibility_available(drv) == is_available(NewClient, drv).ret

\* [kind, ret, client]
_get_context_id(c, drv) ==
    IF Truthy(c._context_id)
    THEN [kind |-> "return", ret |-> c._context_id.s, client |-> c]
    ELSE IF drv.window = ""
    THEN [kind |-> "BiDiNotAvailableError", ret |-> "", client |-> c]
    ELSE [kind |-> "return", ret |-> drv.window,
          client |-> [c EXCEPT !._context_id = PyStr(drv.window)]]

\* A locator that forwards every filter it is given
_build_locator_forwarding_all(role, name, filters) ==
    LET base == <<[k |-> "role", v |-> PyStr(role)]>>
        named == IF Truthy(name) THEN Put(base, "name", name) ELSE base
    IN named \o filters

_build_accessibility_locator(role, name, filters) ==
    LET base == <<[k |-> "role", v |-> PyStr(role)]>>
        named == IF Truthy(name) THEN Put(base, "name", name) ELSE base
        supported == SelectSeq(filters, LAMBDA e : e.k \in SUPPORTED_ACCESSIBILITY_ATTRIBUTES)
    IN named \o supported

Take(seq, n) == SubSeq(seq, 1, Min(n, Len(seq)))

\* A node reference in a locate-nodes answer: key names the identifier it
\* carries ("sharedId", "backendNodeId", or "none" for a CDP tree node)
NodeRef(key, h) == [key |-> key, h |-> h]

\* What the browser answers to browsingContext.locateNodes with an
\* accessibility locator: the elements whose computed role and name equal the
\* locator's, as shared references, at most maxNodeCount of them
BrowserLocate(pg, params) ==
    LET value == params.locator
        hit(h) == /\ pg[h].ax.present
                  /\ pg[h].ax.role.t = "dict" /\ ValueOf(pg[h].ax.role) = Get(value, "role")
                  /\ HasKey(value, "name") =>
                        (pg[h].ax.name.t = "dict" /\ ValueOf(pg[h].ax.name) = Get(value, "name"))
        hs == SelectSeq(Indices(Len(pg)), hit)
    IN Take([i \in 1..Len(hs) |-> NodeRef("sharedId", hs[i])], params.maxNodeCount)

_role_matches(node_role, expected_role) ==
    \/ ValueOf(node_role) = PyStr(expected_role)
    \/ node_role.ty = expected_role

_name_matches(node_name, expected_name) ==
    LET actual_name == lower(IF node_name.t = "dict" THEN ValueOf(node_name).s ELSE "")
        expected_name_lower == lower(expected_name)
    IN contains(expected_name_lower, actual_name)

_node_matches_criteria(node, criteria) ==
    /\ HasKey(criteria, "role") => _role_matches(node.role, Get(criteria, "role").s)
    /\ HasKey(criteria, "name") => _name_matches(node.name, Get(criteria, "name").s)

\* node.get("role", {}).get(...) and node.get("name", {}).get(...).lower() raise
\* for a role or name that is no dict, and for a name value that is no str
MatchingRaises(node, criteria) ==
    \/ HasKey(criteria, "role") /\ node.role.t \notin {"dict", "none"}
    \/ /\ HasKey(criteria, "role") => _role_matches(node.role, Get(criteria, "role").s)
       /\ HasKey(criteria, "name")
       /\ \/ node.name.t \notin {"dict", "none"}
          \/ node.name.t = "dict" /\ node.name.vt # "str"
          \/ Get(criteria, "name").t # "str"

_filter_accessibility_nodes(pg, nodes, criteria) ==
    SelectSeq(nodes, LAMBDA h : _node_matches_criteria(pg[h].ax, criteria))

\* A strategy's outcome: "none" (not applicable), "raise" or "result" with nodes
Outcome(kind, nodes) == [kind |-> kind, nodes |-> nodes]

_try_native_browsing_context(drv, pg, method, params) ==
    IF drv.browsing_context = "absent" THEN Outcome("none", <<>>)
    ELSE IF method # BIDI_LOCATE_NODES_METHOD THEN Outcome("none", <<>>)
    ELSE IF drv.browsing_context = "raises" THEN Outcome("raise", <<>>)
    ELSE Outcome("result", BrowserLocate(pg, params))

\* driver.execute_bidi_command raises, answers None ("none") or answers
_try_direct_bidi_command(drv, pg, method, params) ==
    IF drv.execute_bidi_command = "absent" THEN Outcome("none", <<>>)
    ELSE IF drv.execute_bidi_command = "raises" THEN Outcome("raise", <<>>)
    ELSE IF drv.execute_bidi_command = "none" THEN Outcome("none", <<>>)
    ELSE Outcome("result", BrowserLocate(pg, params))

\* driver.bidi_connection() raises, or gives a connection that has execute,
\* or send, or neither
_try_legacy_bidi_connection(drv, pg, method, params) ==
    IF drv.bidi_connection = "absent" THEN Outcome("none", <<>>)
    ELSE IF drv.bidi_connection = "raises" THEN Outcome("raise", <<>>)
    ELSE IF drv.bidi_connection = "execute" THEN Outcome("result", BrowserLocate(pg, params))
    ELSE IF drv.bidi_connection = "send" THEN Outcome("result", BrowserLocate(pg, params))
    ELSE Outcome("none", <<>>)

_execute_bidi_via_cdp(drv, pg, method, params) ==
    IF method = BIDI_LOCATE_NODES_METHOD
       /\ ~CdpFails(drv, "Accessibility.enable")
       /\ ~CdpFails(drv, "Accessibility.getFullAXTree")
       /\ \A i \in 1..Len(AXTree(pg)) : ~MatchingRaises(pg[AXTree(pg)[i]].ax, params.locator)
    THEN LET matching_nodes == _filter_accessibility_nodes(pg, AXTree(pg), params.locator)
         IN Outcome("result", [i \in 1..Len(matching_nodes) |-> NodeRef("none", matching_nodes[i])])
    ELSE Outcome("raise", <<>>)

_try_cdp_bridge(drv, pg, method, params) ==
    IF drv.cdp = "absent" THEN Outcome("none", <<>>)
    ELSE _execute_bidi_via_cdp(drv, pg, method, params)

\* A list of strategies in which the legacy connection precedes the direct command
StrategyLegacyFirst(k, drv, pg, method, params) ==
    CASE k = 1 -> _try_native_browsing_context(drv, pg, method, params)
      [] k = 2 -> _try_legacy_bidi_connection(drv, pg, method, params)
      [] k = 3 -> _try_direct_bidi_command(drv, pg, method, params)
      [] k = 4 -> _try_cdp_bridge(drv, pg, method, params)

\* The k-th execution strategy, in the order of execution_strategies
Strategy(k, drv, pg, method, params) ==
    CASE k = 1 -> _try_native_browsing_context(drv, pg, method, params)
      [] k = 2 -> _try_direct_bidi_command(drv, pg, method, params)
      [] k = 3 -> _try_legacy_bidi_connection(drv, pg, method, params)
      [] k = 4 -> _try_cdp_bridge(drv, pg, method, params)

\* str(e) of the exception the k-th strategy ends in when it raises: what the
\* session raised, or the bridge's own BiDiNotAvailableError
ErrorText(k) ==
    CASE k = 1 -> "browsing_context.locate_nodes failed"
      [] k = 2 -> "execute_bidi_command failed"
      [] k = 3 -> "bidi_connection failed"
      [] k = 4 -> "CDP bridge failed"

RECURSIVE ExecuteFrom(_, _, _, _, _)
\* [kind, nodes, tried, last_error]: the loop over the strategies from the
\* k-th on; last_error is "" for None
ExecuteFrom(k, drv, pg, method, params) ==
    IF k > 4 THEN [kind |-> "BiDiNotAvailableError", nodes |-> <<>>, tried |-> <<>>,
                   last_error |-> ""]
    ELSE Bind({Strategy(k, drv, pg, method, params)}, LAMBDA o :
            IF o.kind = "result"
            THEN [kind |-> "return", nodes |-> o.nodes, tried |-> <<k>>, last_error |-> ""]
            ELSE Bind({ExecuteFrom(k + 1, drv, pg, method, params)}, LAMBDA rest :
                   [rest EXCEPT !.tried = <<k>> \o @,
                                !.last_error = IF rest.kind = "return" THEN ""
                                               ELSE IF @ # "" THEN @
                                               ELSE IF o.kind = "raise" THEN ErrorText(k)
                                               ELSE ""]))

RECURSIVE ExecuteUntilFailure(_, _, _, _, _)
\* A loop over the strategies that ends with the first one that raises
ExecuteUntilFailure(k, drv, pg, method, params) ==
    IF k > 4 THEN [kind |-> "BiDiNotAvailableError", nodes |-> <<>>, tried |-> <<>>,
                   last_error |-> "", message |-> ""]
    ELSE Bind({Strategy(k, drv, pg, method, params)}, LAMBDA o :
            IF o.kind = "result"
            THEN [kind |-> "return", nodes |-> o.nodes, tried |-> <<k>>, last_error |-> "",
                  message |-> ""]
            ELSE IF o.kind = "raise"
            THEN [kind |-> "BiDiNotAvailableError", nodes |-> <<>>, tried |-> <<k>>,
                  last_error |-> ErrorText(k), message |-> ErrorText(k)]
            ELSE [ExecuteUntilFailure(k + 1, drv, pg, method, params)
                     EXCEPT !.tried = <<k>> \o @])

\* A command that gives up at the first strategy that raises
_execute_bidi_command_giving_up(drv, pg, method, params) ==
    ExecuteUntilFailure(1, drv, pg, method, params)

\* [kind, nodes, tried, last_error, message]: message is the text of the
\* BiDiNotAvailableError raised, "" when the command returns
_execute_bidi_command(drv, pg, method, params) ==
    Bind({ExecuteFrom(1, drv, pg, method, params)}, LAMBDA r :
       [kind |-> r.kind, nodes |-> r.nodes, tried |-> r.tried, last_error |-> r.last_error,
        message |-> IF r.kind = "return" THEN ""
                    ELSE "All BiDi execution strategies failed for method '" \o method \o "'"
                         \o (IF r.last_error # "" THEN ". Last error: " \o r.last_error
                             ELSE "")])

\* 0 stands for None
_create_element_from_shared_id(pg, shared_id) ==
    IF shared_id \in Handles(pg) THEN shared_id ELSE 0

\* script.evaluate of document.querySelector('[data-backend-id="N"]'): no
\* element carries that attribute, so no node comes back
_create_element_from_backend_id(pg, backend_id) == 0

RECURSIVE _convert_nodes_to_elements(_, _)
_convert_nodes_to_elements(pg, nodes) ==
    IF nodes = <<>> THEN <<>>
    ELSE LET node == Head(nodes)
             element == CASE node.key = "sharedId" -> _create_element_from_shared_id(pg, node.h)
                          [] node.key = "backendNodeId" -> _create_element_from_backend_id(pg, node.h)
                          [] OTHER -> 0
             rest == _convert_nodes_to_elements(pg, Tail(nodes))
         IN IF element # 0 THEN <<element>> \o rest ELSE rest

\* The result of a client call: kind is "return" or the exception raised,
\* request is the locate-nodes request handed to the strategies (<<>> if none)
ClientResult(kind, elements, client, probed, request, tried) ==
    [kind |-> kind, elements |-> elements, client |-> client, probed |-> probed,
     request |-> request, tried |-> tried]

\* A find_elements of the client that takes any role as it comes
BiDi_find_elements_unvalidated(c, drv, pg, role, name, max_count, filters) ==
    Bind({is_available(c, drv)}, LAMBDA av :
      IF ~av.ret
      THEN ClientResult("BiDiNotAvailableError", <<>>, av.client, av.probed, <<>>, <<>>)
      ELSE Bind({_get_context_id(av.client, drv)}, LAMBDA ctx :
        IF ctx.kind # "return"
        THEN ClientResult("BiDiNotAvailableError", <<>>, ctx.client, av.probed, <<>>, <<>>)
        ELSE Bind({[context |-> ctx.ret,
                    locator |-> _build_accessibility_locator(role.s, name, filters),
                    maxNodeCount |-> IF max_count # 0 THEN max_count
                                     ELSE DEFAULT_MAX_NODE_COUNT]}, LAMBDA params :
          Bind({_execute_bidi_command(drv, pg, BIDI_LOCATE_NODES_METHOD, params)}, LAMBDA ex :
            IF ex.kind # "return"
            THEN ClientResult("BiDiNotAvailableError", <<>>, ctx.client, av.probed,
                              <<params>>, ex.tried)
            ELSE ClientResult("return", _convert_nodes_to_elements(pg, ex.nodes), ctx.client,
                              av.probed, <<params>>, ex.tried)))))

\* BiDiAccessibilityLocator.find_elements; role is a Python value, max_count 0
\* stands for None
BiDi_find_elements(c, drv, pg, role, name, max_count, filters) ==
    IF ~Truthy(role) \/ role.t # "str"
    THEN ClientResult("ValueError", <<>>, c, FALSE, <<>>, <<>>)
    ELSE Bind({is_available(c, drv)}, LAMBDA av :
      IF ~av.ret
      THEN ClientResult("BiDiNotAvailableError", <<>>, av.client, av.probed, <<>>, <<>>)
      ELSE Bind({_get_context_id(av.client, drv)}, LAMBDA ctx :
        IF ctx.kind # "return"
        THEN ClientResult("BiDiNotAvailableError", <<>>, ctx.client, av.probed, <<>>, <<>>)
        ELSE Bind({[context |-> ctx.ret,
                    locator |-> _build_accessibility_locator(role.s, name, filters),
                    maxNodeCount |-> IF max_count # 0 THEN max_count
                                     ELSE DEFAULT_MAX_NODE_COUNT]}, LAMBDA params :
          Bind({_execute_bidi_command(drv, pg, BIDI_LOCATE_NODES_METHOD, params)}, LAMBDA ex :
            IF ex.kind # "return"
            THEN ClientResult("BiDiNotAvailableError", <<>>, ctx.client, av.probed,
                              <<params>>, ex.tried)
            ELSE ClientResult("return", _convert_nodes_to_elements(pg, ex.nodes), ctx.client,
                              av.probed, <<params>>, ex.tried)))))

-----------------------------------------------------------------------------
(* Role-resolution engine (ARIARoleLocator) *)

\* LocatorConfig
LocatorConfig(use_accessibility_tree, fallback_to_dom) ==
    [use_accessibility_tree |-> use_accessibility_tree, fallback_to_dom |-> fallback_to_dom,
     timeout_seconds |-> 10, debug_mode |-> FALSE]

DefaultConfig == LocatorConfig(TRUE, TRUE)

\* ARIARoleLocator.__init__: the engine holds a fresh client exactly when the
\* probe of a throw-away client finds BiDi available
NewEngine(drv) ==
    [bidi_locator |-> is_bidi_accessibility_available(drv), client |-> NewClient]

EnumValue == [TEXTBOX |-> "textbox", BUTTON |-> "button", CHECKBOX |-> "checkbox",
              RADIO |-> "radio", LINK |-> "link", HEADING |-> "heading",
              LISTITEM |-> "listitem", LIST |-> "list", COMBOBOX |-> "combobox",
              SEARCHBOX |-> "searchbox"]

\* role.value if isinstance(role, ARIARole) else role
RoleValue(role) == IF role.enum THEN EnumValue[role.v] ELSE role.v

\* One backend attempt of a call: entered tells whether the backend's own code
\* ran, outcome is "return" or the exception the attempt ended in
Step(backend, entered, outcome, elements) ==
    [backend |-> backend, entered |-> entered, outcome |-> outcome, elements |-> elements]

\* An engine that keeps its client after BiDiNotAvailableError
KeepsClient(e) == e

\* except BiDiNotAvailableError: self.bidi_locator = None
AfterNotAvailable(e) == [bidi_locator |-> FALSE, client |-> NewClient]

\* A step 1 that gives the client up after any exception
BiDiStepGivingUp(e, drv, pg, role_value, name, filters) ==
    IF ~e.bidi_locator
    THEN [steps |-> <<>>, eng |-> e, elements |-> <<>>, probed |-> FALSE, request |-> <<>>]
    ELSE IF HasKey(filters, "name")
    THEN [steps |-> <<Step("bidi", FALSE, "TypeError", <<>>)>>, eng |-> AfterNotAvailable(e),
          elements |-> <<>>, probed |-> FALSE, request |-> <<>>]
    ELSE Bind({BiDi_find_elements(e.client, drv, pg, PyStr(role_value), name, 0, filters)}, LAMBDA r :
       IF r.kind # "return"
       THEN [steps |-> <<Step("bidi", TRUE, r.kind, <<>>)>>,
             eng |-> AfterNotAvailable(e),
             elements |-> <<>>, probed |-> r.probed, request |-> r.request]
       ELSE [steps |-> <<Step("bidi", TRUE, r.kind, r.elements)>>,
             eng |-> [e EXCEPT !.client = r.client],
             elements |-> r.elements, probed |-> r.probed, request |-> r.request])

\* Step 1.  The call passes name positionally and filters as keywords: when
\* filters holds the key name, Python raises TypeError before the client runs.
BiDiStep(e, drv, pg, role_value, name, filters) ==
    IF ~e.bidi_locator
    THEN [steps |-> <<>>, eng |-> e, elements |-> <<>>, probed |-> FALSE, request |-> <<>>]
    ELSE IF HasKey(filters, "name")
    THEN [steps |-> <<Step("bidi", FALSE, "TypeError", <<>>)>>, eng |-> e,
          elements |-> <<>>, probed |-> FALSE, request |-> <<>>]
    ELSE Bind({BiDi_find_elements(e.client, drv, pg, PyStr(role_value), name, 0, filters)}, LAMBDA r :
       IF r.kind = "BiDiNotAvailableError"
       THEN [steps |-> <<Step("bidi", TRUE, r.kind, <<>>)>>,
             eng |-> AfterNotAvailable(e),
             elements |-> <<>>, probed |-> r.probed, request |-> r.request]
       ELSE [steps |-> <<Step("bidi", TRUE, r.kind, r.elements)>>,
             eng |-> [e EXCEPT !.client = r.client],
             elements |-> r.elements, probed |-> r.probed, request |-> r.request])

\* Step 2
TreeStep(config, drv, pg, role_value, filters) ==
    IF ~config.use_accessibility_tree THEN <<>>
    ELSE Bind({_find_via_accessibility_tree(drv, pg, role_value, filters)}, LAMBDA r :
            <<Step("tree", TRUE, r.kind, r.elements)>>)

\* A DOM step that forgets the filters
DomStepWithoutFilters(config, drv, pg, role_value, filters) ==
    IF ~config.fallback_to_dom THEN <<>>
    ELSE <<Step("dom", TRUE, "return", _find_via_dom(drv, pg, role_value, <<>>))>>

\* Step 3
DomStep(config, drv, pg, role_value, filters) ==
    IF ~config.fallback_to_dom THEN <<>>
    ELSE <<Step("dom", TRUE, "return", _find_via_dom(drv, pg, role_value, filters))>>

\* How a call that tried the backends of steps ends, after step 1 ended as b
Done(b, kind, elements, steps) ==
    [kind |-> kind, elements |-> elements, eng |-> b.eng, steps |-> steps,
     probed |-> b.probed, request |-> b.request]

\* A cascade that goes on after a non-empty result
NeverReturnsEarly(elements) == FALSE

\* A cascade that swallows the tree failure whatever the configuration
TreeFailureNeverFatal(config) == FALSE

\* A cascade that raises on every tree failure
TreeFailureAlwaysFatal(config) == TRUE

\* if elements: return elements
ReturnsEarly(elements) == elements # <<>>

\* if not self.config.fallback_to_dom: raise AccessibilityTreeError(...)
TreeFailureIsFatal(config) == ~config.fallback_to_dom

\* [kind, elements, eng, steps, probed, request]: kind is "return" or the
\* exception raised, eng the engine after the call
find_elements(e, config, drv, pg, role, name, kwargs) ==
    Bind({RoleValue(role)}, LAMBDA role_value :
    Bind({IF name # PyNone THEN Put(kwargs, "name", name) ELSE kwargs}, LAMBDA filters :
    Bind({BiDiStep(e, drv, pg, role_value, name, filters)}, LAMBDA b :
      IF ReturnsEarly(b.elements) THEN Done(b, "return", b.elements, b.steps)
      ELSE Bind({TreeStep(config, drv, pg, role_value, filters)}, LAMBDA t :
        IF t # <<>> /\ t[1].outcome = "return" /\ ReturnsEarly(t[1].elements)
        THEN Done(b, "return", t[1].elements, b.steps \o t)
        ELSE IF t # <<>> /\ t[1].outcome # "return" /\ TreeFailureIsFatal(config)
        THEN Done(b, "AccessibilityTreeError", <<>>, b.steps \o t)
        ELSE Bind({DomStep(config, drv, pg, role_value, filters)}, LAMBDA d :
          IF d # <<>> THEN Done(b, "return", d[1].elements, b.steps \o t \o d)
          ELSE Done(b, "return", IF t # <<>> THEN t[1].elements ELSE b.elements,
                    b.steps \o t))))))

RECURSIVE Join(_)
\* ", ".join(k='v' for k, v in d.items())
Join(d) ==
    IF d = <<>> THEN ""
    ELSE d[1].k \o "='" \o Format(d[1].v) \o "'"
         \o (IF Len(d) > 1 THEN ", " ELSE "") \o Join(Tail(d))

_describe_filters(filters) ==
    LET clean_filters == SelectSeq(filters, LAMBDA e : e.v # PyNone)
    IN IF filters = <<>> THEN ""
       ELSE IF clean_filters = <<>> THEN ""
       ELSE " with " \o Join(clean_filters)

\* A find_element that returns the last element of the list
find_element_last(e, config, drv, pg, role, name, kwargs) ==
    Bind({find_elements(e, config, drv, pg, role, name, kwargs)}, LAMBDA found :
      IF found.kind # "return"
      THEN [kind |-> found.kind, element |-> 0, message |-> "", found |-> found]
      ELSE IF found.elements = <<>>
      THEN [kind |-> "NoSuchElementException", element |-> 0, message |-> "",
            found |-> found]
      ELSE [kind |-> "return", element |-> found.elements[Len(found.elements)],
            message |-> "", found |-> found])

\* [kind, element, message, found]: kind is "return" or the exception raised,
\* found is the inner find_elements call
find_element(e, config, drv, pg, role, name, kwargs) ==
    Bind({find_elements(e, config, drv, pg, role, name, kwargs)}, LAMBDA found :
      IF found.kind # "return"
      THEN [kind |-> found.kind, element |-> 0, message |-> "", found |-> found]
      ELSE IF found.elements = <<>>
      THEN [kind |-> "NoSuchElementException", element |-> 0,
            message |-> "Can't find " \o RoleValue(role) \o " element"
                        \o _describe_filters(IF Truthy(name)
                                             THEN <<[k |-> "name", v |-> name]>> \o kwargs
                                             ELSE kwargs),
            found |-> found]
      ELSE [kind |-> "return", element |-> found.elements[1], message |-> "",
            found |-> found])

-----------------------------------------------------------------------------
(* Pages, sessions and arguments the model draws from *)

Role(v) == Envelope("role", PyStr(v))
Name(v) == Envelope("computedString", PyStr(v))

\* <button>Mu</button>
MuteButton ==
    Widget(Elem("button", NoAttrs, <<>>, "Mu", PyNone),
           AXNode(Role("button"), Name("Mu"), <<>>, TRUE, "ok"))

\* <button id="p" class="c"> Pl </button>, which DOM.resolveNode cannot resolve
PlayButton ==
    Widget(Elem("button", [NoAttrs EXCEPT !["id"] = PyStr("p")], <<"c">>, " Pl ", PyNone),
           AXNode(Role("button"), Name("Pl"), <<>>, TRUE, "raise"))

\* <label for="u">Us</label>
UserLabel ==
    Widget(Elem("label", [NoAttrs EXCEPT !["for"] = PyStr("u")], <<>>, "Us", PyNone),
           AXNode(Role("LabelText"), Name("Us"), <<>>, TRUE, "ok"))

\* <input id="u" type="text" placeholder="name">
UserInput ==
    Widget(Elem("input", [NoAttrs EXCEPT !["id"] = PyStr("u"), !["type"] = PyStr("text"),
                                         !["placeholder"] = PyStr("name")],
                <<>>, "", PyNone),
           AXNode(Role("textbox"), Name("Us"), <<Prop("required", Envelope("boolean", PyBool(FALSE)))>>,
                  TRUE, "ok"))

\* <input type="checkbox" aria-label="Mu" checked>
MuteCheckbox ==
    Widget(Elem("input", [NoAttrs EXCEPT !["type"] = PyStr("checkbox"),
                                         !["aria-label"] = PyStr("Mu")],
                <<>>, "", PyNone),
           AXNode(Role("checkbox"), Name("Mu"),
                  <<Prop("checked", Envelope("tristate", PyStr("true")))>>, TRUE, "ok"))

\* <select title="Mu">: a combobox, which has no CSS selector of its own
MuteSelect ==
    Widget(Elem("select", [NoAttrs EXCEPT !["title"] = PyStr("Mu")], <<>>, "", PyNone),
           AXNode(Role("combobox"), Name("Mu"), <<>>, TRUE, "ok"))

Pages == {<<>>,
          <<MuteButton, PlayButton>>,
          <<UserLabel, UserInput, MuteCheckbox, MuteSelect>>}

\* The session handle: which capabilities it exposes and how they answer
Session(browsing_context, execute_bidi_command, bidi_connection, cdp, dom, window) ==
    [browsing_context |-> browsing_context, execute_bidi_command |-> execute_bidi_command,
     bidi_connection |-> bidi_connection, cdp |-> cdp, dom |-> dom, window |-> window]

Sessions ==
    {Session(bc, "absent", "absent", cdp, "ok", "w1") :
        bc \in {"absent", "ok", "raises"}, cdp \in {"ok", "raises"}}
    \cup {Session("raises", "absent", "absent", "raises", "raises", "w1")}

Configs == {LocatorConfig(t, d) : t \in BOOLEAN, d \in BOOLEAN}

RoleArgs == {[enum |-> FALSE, v |-> r] : r \in {"button", "combobox", ""}}
            \cup {[enum |-> TRUE, v |-> "TEXTBOX"]}

NameArgs == {PyNone, PyStr(""), PyStr("Mu")}

FilterArgs == {<<>>, <<[k |-> "checked", v |-> PyBool(TRUE)], [k |-> "level", v |-> PyNone]>>}

-----------------------------------------------------------------------------
(* State machine of one engine instance *)

\* The record of the last call: its arguments, the engine before it, whether
\* the session had signalled 'not available' before it, how it ended and
\* which backends it tried
Call(op, via, role, name, kwargs, pre, r, element, message) ==
    [op |-> op, via |-> via, role |-> role, name |-> name, kwargs |-> kwargs, pre |-> pre,
     kind |-> r.kind, elements |-> r.elements, steps |-> r.steps, probed |-> r.probed,
     request |-> r.request, element |-> element, message |-> message]

NoResult == [kind |-> "none", elements |-> <<>>, steps |-> <<>>, probed |-> FALSE,
             request |-> <<>>]

NoCall == Call("none", "none", [enum |-> FALSE, v |-> ""], PyNone, <<>>,
               [bidi_locator |-> FALSE, client |-> NewClient, signalled |-> FALSE],
               NoResult, 0, "")

\* No application of the filters yet
NoOut == [role |-> "", name |-> PyNone, dom_plain |-> <<>>, dom_named |-> <<>>,
          tree_plain |-> <<>>, tree_named |-> <<>>, bridge_plain |-> <<>>,
          bridge_named |-> <<>>]

\* The body of install_aria_methods: both attributes are assigned, whatever
\* the class held before
install_methods(attrs) ==
    (attrs \cup {"find_element_by_role"}) \cup {"find_elements_by_role"}

\* delattr(WebDriver, name) raises AttributeError for an attribute that is absent
delattr(attrs, name) ==
    IF name \in attrs THEN [kind |-> "return", attrs |-> attrs \ {name}]
    ELSE [kind |-> "AttributeError", attrs |-> attrs]

\* uninstall_aria_methods with the hasattr tests left out
uninstall_methods_untested(attrs) ==
    Bind({delattr(attrs, "find_element_by_role")}, LAMBDA a :
       IF a.kind # "return" THEN a
       ELSE delattr(a.attrs, "find_elements_by_role"))

\* The body of uninstall_aria_methods: each attribute is deleted only when
\* hasattr finds it
uninstall_methods(attrs) ==
    Bind({IF "find_element_by_role" \in attrs
          THEN delattr(attrs, "find_element_by_role")
          ELSE [kind |-> "return", attrs |-> attrs]}, LAMBDA a :
       IF a.kind # "return" THEN a
       ELSE IF "find_elements_by_role" \in a.attrs
            THEN delattr(a.attrs, "find_elements_by_role")
            ELSE a)

\* The engine as a call finds it, with the session's signal history
Pre(e) == [bidi_locator |-> e.bidi_locator, client |-> e.client, signalled |-> signalled]

\* The client raised BiDiNotAvailableError in one of the steps
NotAvailableIn(steps) ==
    \E i \in 1..Len(steps) : steps[i].outcome = "BiDiNotAvailableError"

Init ==
    /\ page \in Pages
    /\ driver \in Sessions
    /\ cfg \in Configs
    /\ eng = NewEngine(driver)
    /\ installed = install_methods({})
    /\ signalled = FALSE
    /\ last = NoCall
    /\ out = NoOut

\* A find_elements that switches the DOM fallback off once the tree has failed
FindElementsDroppingFallback ==
    \E role \in RoleArgs, name \in NameArgs, kwargs \in FilterArgs :
        \E r \in {find_elements(eng, cfg, driver, page, role, name, kwargs)} :
           /\ eng' = r.eng
           /\ signalled' = (signalled \/ NotAvailableIn(r.steps))
           /\ last' = Call("find_elements", "engine", role, name, kwargs, Pre(eng), r, 0, "")
           /\ cfg' = IF \E i \in 1..Len(r.steps) : /\ r.steps[i].backend = "tree"
                                                    /\ r.steps[i].outcome # "return"
                     THEN [cfg EXCEPT !.fallback_to_dom = FALSE]
                     ELSE cfg
           /\ UNCHANGED <<page, driver, installed, out>>

\* locator.find_elements(role, name, **filters) on the engine instance
FindElements ==
    \E role \in RoleArgs, name \in NameArgs, kwargs \in FilterArgs :
        \E r \in {find_elements(eng, cfg, driver, page, role, name, kwargs)} :
           /\ eng' = r.eng
           /\ signalled' = (signalled \/ NotAvailableIn(r.steps))
           /\ last' = Call("find_elements", "engine", role, name, kwargs, Pre(eng), r, 0, "")
           /\ UNCHANGED <<page, driver, cfg, installed, out>>

\* locator.find_element(role, name, **filters) on the engine instance
FindElement ==
    \E role \in RoleArgs, name \in NameArgs, kwargs \in FilterArgs :
        \E r \in {find_element(eng, cfg, driver, page, role, name, kwargs)} :
           /\ eng' = r.found.eng
           /\ signalled' = (signalled \/ NotAvailableIn(r.found.steps))
           /\ last' = Call("find_element", "engine", role, name, kwargs, Pre(eng),
                           [r.found EXCEPT !.kind = r.kind], r.element, r.message)
           /\ UNCHANGED <<page, driver, cfg, installed, out>>

\* The session gains or loses a capability, or its connection changes; the
\* record of the last call is of no use any more
SessionChange ==
    /\ driver' \in Sessions \ {driver}
    /\ last' = NoCall
    /\ UNCHANGED <<page, cfg, eng, installed, signalled, out>>

Next == FindElements \/ FindElement \/ SessionChange

Spec == Init /\ [][Next]_vars

-----------------------------------------------------------------------------
(* State machine of one session used through the free functions and the
   methods attached to WebDriver: every call builds its own engine *)

\* locator = ARIARoleLocator(driver): the engine, and whether building it
\* asked the session for its BiDi capability
Construct(drv) ==
    [eng |-> NewEngine(drv), probed |-> is_available(NewClient, drv).probed]

\* aria_locators.find_elements_by_role(driver, role, name, **filters) and the
\* WebDriver method of the same name
find_elements_by_role(drv, pg, role, name, kwargs) ==
    Bind({Construct(drv)}, LAMBDA c :
    Bind({find_elements(c.eng, DefaultConfig, drv, pg, role, name, kwargs)}, LAMBDA r :
       [r EXCEPT !.probed = c.probed \/ r.probed]))

\* aria_locators.find_element_by_role(driver, role, name, **filters) and the
\* WebDriver method of the same name
find_element_by_role(drv, pg, role, name, kwargs) ==
    Bind({Construct(drv)}, LAMBDA c :
    Bind({find_element(c.eng, DefaultConfig, drv, pg, role, name, kwargs)}, LAMBDA r :
       [r EXCEPT !.found.probed = c.probed \/ r.found.probed]))

SessionInit ==
    /\ page \in Pages
    /\ driver \in Sessions
    /\ cfg = DefaultConfig
    /\ eng = NewEngine(driver)
    /\ installed = install_methods({})
    /\ signalled = FALSE
    /\ last = NoCall
    /\ out = NoOut

ManyBy(via) ==
    \E role \in RoleArgs, name \in NameArgs, kwargs \in FilterArgs :
        \E r \in {find_elements_by_role(driver, page, role, name, kwargs)} :
           /\ signalled' = (signalled \/ NotAvailableIn(r.steps))
           /\ last' = Call("find_elements", via, role, name, kwargs,
                           Pre(Construct(driver).eng), r, 0, "")
           /\ UNCHANGED <<page, driver, cfg, eng, installed, out>>

OneBy(via) ==
    \E role \in RoleArgs, name \in NameArgs, kwargs \in FilterArgs :
        \E r \in {find_element_by_role(driver, page, role, name, kwargs)} :
           /\ signalled' = (signalled \/ NotAvailableIn(r.found.steps))
           /\ last' = Call("find_element", via, role, name, kwargs,
                           Pre(Construct(driver).eng),
                           [r.found EXCEPT !.kind = r.kind], r.element, r.message)
           /\ UNCHANGED <<page, driver, cfg, eng, installed, out>>

\* find_elements_by_role(driver, ...)
FunctionFindElements == ManyBy("function")

\* find_element_by_role(driver, ...)
FunctionFindElement == OneBy("function")

\* driver.find_elements_by_role(...): the attribute exists only while installed
MethodFindElements ==
    /\ "find_elements_by_role" \in installed
    /\ ManyBy("method")

\* driver.find_element_by_role(...)
MethodFindElement ==
    /\ "find_element_by_role" \in installed
    /\ OneBy("method")

\* A call of one of the two module functions that change the WebDriver
\* class, with the attributes the class held before it
ClassCall(op, kind, before) ==
    ("before" :> before) @@ [NoCall EXCEPT !.op = op, !.via = "module", !.kind = kind]

install_aria_methods ==
    /\ installed' = install_methods(installed)
    /\ last' = ClassCall("install_aria_methods", "return", installed)
    /\ UNCHANGED <<page, driver, cfg, eng, signalled, out>>

uninstall_aria_methods ==
    \E r \in {uninstall_methods(installed)} :
       /\ installed' = r.attrs
       /\ last' = ClassCall("uninstall_aria_methods", r.kind, installed)
       /\ UNCHANGED <<page, driver, cfg, eng, signalled, out>>

SessionNext ==
    \/ FunctionFindElements
    \/ FunctionFindElement
    \/ MethodFindElements
    \/ MethodFindElement
    \/ install_aria_methods
    \/ uninstall_aria_methods
    \/ SessionChange

SessionSpec == SessionInit /\ [][SessionNext]_vars

-----------------------------------------------------------------------------
(* The three filters applied to one fixed page, with and without a name *)

MaxWidgets == 2

\* <button>Mu</button> whose node lists its name among its properties too
NamedButton ==
    Widget(Elem("button", NoAttrs, <<>>, "Mu", PyNone),
           AXNode(Role("button"), Name("Mu"),
                  <<Prop("name", Envelope("computedString", PyStr("Mu")))>>, TRUE, "ok"))

WidgetPool == {MuteButton, PlayButton, MuteCheckbox, NamedButton}

RECURSIVE PagesUpTo(_)
PagesUpTo(n) ==
    IF n = 0 THEN {<<>>}
    ELSE PagesUpTo(n - 1)
         \cup {Append(pg, w) : pg \in {q \in PagesUpTo(n - 1) : Len(q) = n - 1}, w \in WidgetPool}

\* A session whose DOM and CDP commands answer
PlainSession == Session("absent", "absent", "absent", "ok", "ok", "w1")

FilterRoles == {"button", "checkbox", "textbox"}

FilterNames == {PyStr("Mu"), PyStr("mu"), PyStr("P")}

\* The handles of the nodes the bridge selects for criteria; <<>> if it raises
BridgeSelect(pg, criteria) ==
    Bind({_execute_bidi_via_cdp(PlainSession, pg, BIDI_LOCATE_NODES_METHOD,
                                [context |-> "w1", locator |-> criteria,
                                 maxNodeCount |-> DEFAULT_MAX_NODE_COUNT])}, LAMBDA o :
       [i \in 1..Len(o.nodes) |-> o.nodes[i].h])

FilterInit ==
    /\ page \in PagesUpTo(MaxWidgets)
    /\ driver = PlainSession
    /\ cfg = DefaultConfig
    /\ eng = NewEngine(driver)
    /\ installed = install_methods({})
    /\ signalled = FALSE
    /\ last = NoCall
    /\ out = NoOut

\* Each backend's filter selects for (role) and for (role, name)
ApplyFilters ==
    \E role \in FilterRoles, name \in FilterNames :
       /\ out' = [role |-> role, name |-> name,
                  dom_plain    |-> _find_via_dom(driver, page, role, <<>>),
                  dom_named    |-> _find_via_dom(driver, page, role,
                                                 <<[k |-> "name", v |-> name]>>),
                  tree_plain   |-> _find_via_accessibility_tree(driver, page, role,
                                                                <<>>).elements,
                  tree_named   |-> _find_via_accessibility_tree(driver, page, role,
                                       <<[k |-> "name", v |-> name]>>).elements,
                  bridge_plain |-> BridgeSelect(page,
                                       _build_accessibility_locator(role, PyNone, <<>>)),
                  bridge_named |-> BridgeSelect(page,
                                       _build_accessibility_locator(role, name, <<>>))]
       /\ UNCHANGED <<page, driver, cfg, eng, installed, signalled, last>>

FilterNext == ApplyFilters

FilterSpec == FilterInit /\ [][FilterNext]_vars

-----------------------------------------------------------------------------
(* The role tables, the tree locator's role test and the DOM fallback's
   selector lookup, applied to one role at a time *)

\* Role strings outside the enumeration
OtherRoles == {"custom", ""}

\* What a node's role field can hold: the envelope, the plain string, nothing
NodeRoles ==
    {Role(r) : r \in ARIARole \cup OtherRoles}
    \cup {PyStr(r) : r \in ARIARole \cup OtherRoles}
    \cup {PyNone}

\* <div>x</div> reported with the given role; its node resolves directly
RoleNode(role) ==
    Widget(Elem("div", NoAttrs, <<>>, "x", PyNone), AXNode(role, Name("x"), <<>>, TRUE, "ok"))

\* A session whose DOM queries raise
NoDomSession == Session("absent", "absent", "absent", "ok", "raises", "w1")

NoLookup == [op |-> "none"]

TableInit ==
    /\ page \in Pages
    /\ driver \in {PlainSession, NoDomSession}
    /\ cfg = DefaultConfig
    /\ eng = NewEngine(driver)
    /\ installed = install_methods({})
    /\ signalled = FALSE
    /\ last = NoCall
    /\ out = NoLookup

\* _process_tree_nodes on a tree of one node, without filters
RoleTest ==
    \E node_role \in NodeRoles, role \in ARIARole \cup OtherRoles :
       /\ out' = [op |-> "role_test", role |-> role, node_role |-> node_role,
                  kept |-> _process_tree_nodes(driver, <<RoleNode(node_role)>>, <<1>>, role, <<>>)
                           = <<1>>]
       /\ UNCHANGED <<page, driver, cfg, eng, installed, signalled, last>>

\* ROLE_SELECTORS.get(role.value) and ROLE_MAPPINGS.get(role.value) for a
\* member of ARIARole; {} and <<>> stand for None
TableLookup ==
    \E role \in ARIARole :
       /\ out' = [op |-> "tables", role |-> role,
                  selector |-> RoleSelector(role),
                  mapping  |-> IF role \in DOMAIN ROLE_MAPPINGS
                               THEN ROLE_MAPPINGS[role] ELSE <<>>]
       /\ UNCHANGED <<page, driver, cfg, eng, installed, signalled, last>>

\* _find_via_dom(role, filters) on the page
DomLookup ==
    \E role \in ARIARole \cup OtherRoles, name \in NameArgs \cup FilterNames,
       kwargs \in FilterArgs :
       \E filters \in {IF name # PyNone THEN Put(kwargs, "name", name) ELSE kwargs} :
          /\ out' = [op |-> "dom", role |-> role, filters |-> filters,
                     elements |-> _find_via_dom(driver, page, role, filters),
                     queries  |-> DomQueries(driver, page, role)]
          /\ UNCHANGED <<page, driver, cfg, eng, installed, signalled, last>>

\* Filter dicts for the client: every choice among two supported keys and two
\* keys the client does not support
LocatorFilters ==
    {SelectSeq(<<[k |-> "hidden", v |-> PyBool(TRUE)], [k |-> "checked", v |-> PyBool(FALSE)],
                 [k |-> "busy", v |-> PyStr("x")], [k |-> "level", v |-> PyNone]>>,
               LAMBDA e : e.k \in keys) :
        keys \in SUBSET {"hidden", "checked", "busy", "level"}}

\* _build_accessibility_locator(role, name, filters)
BuildLocator ==
    \E role \in {"button", "custom"}, name \in NameArgs, filters \in LocatorFilters :
       /\ out' = [op |-> "locator", role |-> role, name |-> name, filters |-> filters,
                  value |-> _build_accessibility_locator(role, name, filters)]
       /\ UNCHANGED <<page, driver, cfg, eng, installed, signalled, last>>

TableNext == RoleTest \/ TableLookup \/ DomLookup \/ BuildLocator

TableSpec == TableInit /\ [][TableNext]_vars

-----------------------------------------------------------------------------
(* The accessibility-tree locator applied to pages of two widgets whose nodes
   differ in their properties and in how they resolve *)

\* <button></button> whose node carries no backendDOMNodeId
LooseButton ==
    Widget(Elem("button", NoAttrs, <<>>, "Lo", PyNone),
           AXNode(Role("button"), Name("Lo"), <<>>, FALSE, "ok"))

\* <button type="submit">, for which DOM.resolveNode and DOM.describeNode raise
DeadButton ==
    Widget(Elem("button", [NoAttrs EXCEPT !["type"] = PyStr("submit")], <<>>, "De", PyNone),
           AXNode(Role("button"), Name("De"), <<>>, TRUE, "dead"))

\* <button>Ba</button>, for which DOM.resolveNode answers without an object
BareButton ==
    Widget(Elem("button", NoAttrs, <<>>, "Ba", PyNone),
           AXNode(Role("button"), Name("Ba"), <<>>, TRUE, "no_object"))

\* <input type="checkbox"> whose node reports the property checked as value
CheckedNode(value) ==
    Widget(Elem("input", [NoAttrs EXCEPT !["type"] = PyStr("checkbox")], <<>>, "", PyNone),
           AXNode(Role("checkbox"), Name("Ch"), <<Prop("checked", value)>>, TRUE, "ok"))

\* <button aria-hidden="true">Mu</button>, which the accessibility tree leaves out
HiddenButton ==
    Widget(Elem("button", NoAttrs, <<>>, "Mu", PyNone), NoAXNode)

TreePool ==
    {MuteButton, PlayButton, LooseButton, DeadButton, BareButton, HiddenButton}
    \cup {CheckedNode(v) : v \in {Envelope("tristate", PyStr("true")), PyStr("TRUE"),
                                  PyBool(TRUE), Envelope("tristate", PyStr("mixed")),
                                  Envelope("boolean", PyBool(FALSE))}}

TreePages == {<<a, b>> : a \in TreePool, b \in TreePool}

\* Sessions without BiDi: CDP answers, or one of the tree locator's commands
\* raises, or the DOM queries raise
TreeSessions ==
    {Session("absent", "absent", "absent", c, "ok", "w1") :
        c \in {"ok"} \cup {TREE_COMMANDS[i] : i \in 1..Len(TREE_COMMANDS)}}
    \cup {NoDomSession}

TreeFilters ==
    {<<>>} \cup {<<[k |-> "checked", v |-> v]>> : v \in {PyBool(TRUE), PyBool(FALSE),
                                                       PyStr("true"), PyNone}}
    \cup FilterArgs

TreeInit ==
    /\ page \in TreePages
    /\ driver \in TreeSessions
    /\ cfg = DefaultConfig
    /\ eng = NewEngine(driver)
    /\ installed = install_methods({})
    /\ signalled = FALSE
    /\ last = NoCall
    /\ out = NoLookup

\* _find_via_accessibility_tree(role, filters) on the page
TreeLookup ==
    \E role \in {"button", "checkbox", "textbox"}, filters \in TreeFilters :
       /\ out' = [op |-> "tree", role |-> role, filters |-> filters,
                  result |-> _find_via_accessibility_tree(driver, page, role, filters)]
       /\ UNCHANGED <<page, driver, cfg, eng, installed, signalled, last>>

\* _convert_node_to_element(node) for one node of the page
ResolveNode ==
    \E h \in {i \in 1..Len(page) : page[i].ax.present} :
       /\ out' = [op |-> "resolve", h |-> h,
                  tried |-> ResolveAttempts(driver, page, h),
                  element |-> _convert_node_to_element(driver, page, h)]
       /\ UNCHANGED <<page, driver, cfg, eng, installed, signalled, last>>

\* locator.find_elements(role, name) of an engine on the page
TreeFindElements ==
    \E role \in {"button", "checkbox"}, name \in {PyNone, PyStr("Mu"), PyStr("Lo")} :
       \E r \in {find_elements(eng, cfg, driver, page, [enum |-> FALSE, v |-> role], name, <<>>)} :
          /\ eng' = r.eng
          /\ out' = [op |-> "find_elements", role |-> role, name |-> name, kind |-> r.kind,
                     elements |-> r.elements, steps |-> r.steps]
          /\ UNCHANGED <<page, driver, cfg, installed, signalled, last>>

TreeNext == TreeLookup \/ ResolveNode \/ TreeFindElements

TreeSpec == TreeInit /\ [][TreeNext]_vars

-----------------------------------------------------------------------------
(* The accessible-name resolver applied to one element of a page that also
   holds a label with id "l" and a label for "u" *)

\* <label id="l"> Lb </label>
RefLabel ==
    Widget(Elem("label", [NoAttrs EXCEPT !["id"] = PyStr("l")], <<>>, " Lb ", PyNone), NoAXNode)

\* <label for="u">Lf</label>
ForLabel ==
    Widget(Elem("label", [NoAttrs EXCEPT !["for"] = PyStr("u")], <<>>, "Lf", PyNone), NoAXNode)

\* The elements to name: every combination of the sources the resolver reads
NamedElems ==
    {Widget(Elem("input", [NoAttrs EXCEPT !["aria-label"] = al, !["aria-labelledby"] = lb,
                                         !["id"] = id, !["placeholder"] = ph,
                                         !["title"] = ti],
                 <<>>, text, anc), NoAXNode) :
        al \in {PyNone, PyStr(""), PyStr(" "), PyStr(" La ")},
        lb \in {PyNone, PyStr("x"), PyStr("l")},
        id \in {PyNone, PyStr("u")},
        ph \in {PyNone, PyStr("Ph")},
        ti \in {PyNone, PyStr("Ti")},
        text \in {"", " Tx "},
        anc \in {PyNone, PyStr("An")}}

NameRoles == {"button", "link", "textbox", "checkbox"}

NameInit ==
    /\ page \in {<<RefLabel, ForLabel, w>> : w \in NamedElems}
    /\ driver = PlainSession
    /\ cfg = DefaultConfig
    /\ eng = NewEngine(driver)
    /\ installed = install_methods({})
    /\ signalled = FALSE
    /\ last = NoCall
    /\ out = NoLookup

\* _get_accessible_name(element, role) for the third element of the page
ResolveName ==
    \E role \in NameRoles :
       /\ out' = [op |-> "name", role |-> role, h |-> 3,
                  name |-> _get_accessible_name(page, 3, role)]
       /\ UNCHANGED <<page, driver, cfg, eng, installed, signalled, last>>

NameNext == ResolveName

NameSpec == NameInit /\ [][NameNext]_vars

-----------------------------------------------------------------------------
(* State machine of one client instance (BiDiAccessibilityLocator) on a
   session whose current window changes between the calls *)

\* driver.current_window_handle
Windows == {"w1", "w2"}

\* Sessions with every combination of the four transports: each one absent,
\* raising, answering, and for the two that may, yielding nothing
ClientSessions ==
    {Session(bc, ex, conn, cdp, "ok", w) :
        bc \in {"absent", "ok", "raises"},
        ex \in {"absent", "raises", "none", "ok"},
        conn \in {"absent", "raises", "execute", "send", "bare"},
        cdp \in {"absent", "ok", "raises"},
        w \in Windows}

\* <input type="checkbox"> that is not checked
ClearCheckbox ==
    Widget(Elem("input", [NoAttrs EXCEPT !["type"] = PyStr("checkbox")], <<>>, "", PyNone),
           AXNode(Role("checkbox"), Name("Mu"),
                  <<Prop("checked", Envelope("tristate", PyStr("false")))>>, TRUE, "ok"))

ClientPages == {<<MuteButton, PlayButton>>, <<MuteCheckbox, ClearCheckbox, MuteSelect>>}

ClientInit ==
    /\ page \in ClientPages
    /\ driver \in ClientSessions
    /\ cfg = DefaultConfig
    /\ eng = [bidi_locator |-> TRUE, client |-> NewClient]
    /\ installed = install_methods({})
    /\ signalled = FALSE
    /\ last = NoCall
    /\ out = NoLookup

\* client.find_elements(role, name, **filters) on the one client instance;
\* window is the session's current window when the call is made
ClientFind ==
    \E role \in {PyStr("button"), PyStr("checkbox")}, name \in {PyNone, PyStr("Mu")},
       filters \in {<<>>, <<[k |-> "checked", v |-> PyBool(TRUE)]>>} :
       \E r \in {BiDi_find_elements(eng.client, driver, page, role, name, 0, filters)} :
          /\ eng' = [eng EXCEPT !.client = r.client]
          /\ out' = [op |-> "find", role |-> role.s, name |-> name, filters |-> filters,
                     window |-> driver.window, before |-> eng.client, kind |-> r.kind,
                     elements |-> r.elements, request |-> r.request, tried |-> r.tried]
          /\ UNCHANGED <<page, driver, cfg, installed, signalled, last>>

\* client._execute_bidi_command(BIDI_LOCATE_NODES_METHOD, params) for a
\* locate-nodes request on the current window
ExecuteCommand ==
    \E role \in {"button", "checkbox", "textbox", "role"},
       name \in {PyNone, PyStr("Mu"), PyStr("U")} :
       \E params \in {[context |-> driver.window,
                        locator |-> _build_accessibility_locator(role, name, <<>>),
                        maxNodeCount |-> DEFAULT_MAX_NODE_COUNT]} :
          /\ out' = [op |-> "execute", method |-> BIDI_LOCATE_NODES_METHOD, params |-> params,
                     result |-> _execute_bidi_command(driver, page, BIDI_LOCATE_NODES_METHOD,
                                                      params)]
          /\ UNCHANGED <<page, driver, cfg, eng, installed, signalled, last>>

\* driver.switch_to.window(w): the session's current window changes; the
\* record of the last call is of no use any more
SwitchWindow ==
    /\ \E w \in Windows \ {driver.window} : driver' = [driver EXCEPT !.window = w]
    /\ out' = NoLookup
    /\ UNCHANGED <<page, cfg, eng, installed, signalled, last>>

ClientNext == ClientFind \/ ExecuteCommand \/ SwitchWindow

ClientSpec == ClientInit /\ [][ClientNext]_vars

-----------------------------------------------------------------------------
(* Properties of the priority cascade *)

Rank(backend) == CASE backend = "bidi" -> 1 [] backend = "tree" -> 2 [] backend = "dom" -> 3

\* The backend of the call is switched on: the engine held a client, or the
\* configuration enables it
Enabled(call, backend) ==
    CASE backend = "bidi" -> call.pre.bidi_locator
      [] backend = "tree" -> cfg.use_accessibility_tree
      [] backend = "dom"  -> cfg.fallback_to_dom

\* The step yielded a non-empty list
Yielded(step) == step.outcome = "return" /\ step.elements # <<>>

HasStep(call, backend) == \E i \in 1..Len(call.steps) : call.steps[i].backend = backend

StepOf(call, backend) ==
    call.steps[CHOOSE i \in 1..Len(call.steps) : call.steps[i].backend = backend]

IsCall == last.op \in {"find_elements", "find_element"}

\* C1: in every call the backends are tried in the order BiDi, tree, DOM; a
\* backend is tried only after every enabled backend of higher priority was
\* tried and returned an empty list or failed; no backend is tried after one
\* that yielded a non-empty list, and that list is what the call returns.
C1_PriorityCascade ==
    IsCall =>
        /\ \A i, j \in 1..Len(last.steps) :
              i < j => /\ Rank(last.steps[i].backend) < Rank(last.steps[j].backend)
                       /\ ~Yielded(last.steps[i])
        /\ \A j \in 1..Len(last.steps) :
              \A b \in {"bidi", "tree", "dom"} :
                 (Rank(b) < Rank(last.steps[j].backend) /\ Enabled(last, b)) =>
                    \E i \in 1..(j - 1) : last.steps[i].backend = b
        /\ \A i \in 1..Len(last.steps) :
              Yielded(last.steps[i]) =>
                 /\ i = Len(last.steps)
                 /\ last.kind \in {"return"}
                 /\ last.elements = last.steps[i].elements

\* C1 happens: BiDi returned an empty list, the tree yielded elements, and the
\* enabled DOM fallback was not tried
C1_Witness ==
    /\ last.op = "find_elements"
    /\ Len(last.steps) = 2
    /\ last.steps[1].backend = "bidi" /\ last.steps[1].outcome = "return"
    /\ last.steps[2].backend = "tree" /\ Yielded(last.steps[2])
    /\ cfg.fallback_to_dom

\* C2: with use_accessibility_tree enabled and fallback_to_dom False, a call
\* whose tree backend fails ends in AccessibilityTreeError and does not try
\* the DOM fallback.
C2_TreeFailureWithoutFallback ==
    (/\ IsCall
     /\ cfg.use_accessibility_tree /\ ~cfg.fallback_to_dom
     /\ HasStep(last, "tree") /\ StepOf(last, "tree").outcome # "return")
    => /\ last.kind = "AccessibilityTreeError"
       /\ ~HasStep(last, "dom")

\* C2 happens: find_elements met a failing tree with the DOM fallback off
C2_Witness ==
    /\ last.op = "find_elements"
    /\ cfg.use_accessibility_tree /\ ~cfg.fallback_to_dom
    /\ HasStep(last, "tree") /\ StepOf(last, "tree").outcome = "AccessibilityTreeError"
    /\ last.kind = "AccessibilityTreeError"

\* The filters find_elements hands to the backends: kwargs with name merged in
Merged(call) ==
    IF call.name # PyNone THEN Put(call.kwargs, "name", call.name) ELSE call.kwargs

\* The client was unavailable to the call: the engine held none, or the
\* client answered with BiDiNotAvailableError
ClientUnavailable(call) ==
    \/ ~call.pre.bidi_locator
    \/ HasStep(call, "bidi") /\ StepOf(call, "bidi").outcome = "BiDiNotAvailableError"

\* C3: when the client is unavailable, the tree backend fails and
\* fallback_to_dom is True, find_elements raises nothing and returns exactly
\* what the DOM fallback locator returns for the same role and filters on the
\* same page.
C3_EqualsDomOnly ==
    (/\ last.op = "find_elements"
     /\ ClientUnavailable(last)
     /\ HasStep(last, "tree") /\ StepOf(last, "tree").outcome # "return"
     /\ cfg.fallback_to_dom)
    => /\ last.kind = "return"
       /\ last.elements = _find_via_dom(driver, page, RoleValue(last.role), Merged(last))

\* C3 happens: no client, a failing tree, and the DOM fallback selects by name
\* one of several elements of the role
C3_Witness ==
    /\ last.op = "find_elements"
    /\ ~last.pre.bidi_locator
    /\ HasStep(last, "tree") /\ StepOf(last, "tree").outcome = "AccessibilityTreeError"
    /\ cfg.fallback_to_dom
    /\ last.name = PyStr("Mu")
    /\ Len(last.elements) = 1
    /\ Len(_find_via_dom(driver, page, RoleValue(last.role), <<>>)) = 2

\* C4 as the specification states it: find_elements never raises.
C4_NeverRaises == last.op = "find_elements" => last.kind = "return"

\* C4, amended: find_elements returns a list and raises nothing, except that
\* it raises AccessibilityTreeError when use_accessibility_tree is enabled,
\* fallback_to_dom is False and the tree backend was tried and failed; it
\* raises no other exception.
C4_RaisesOnlyTreeError ==
    last.op = "find_elements" =>
        \/ last.kind = "return"
        \/ /\ last.kind = "AccessibilityTreeError"
           /\ cfg.use_accessibility_tree /\ ~cfg.fallback_to_dom
           /\ HasStep(last, "tree") /\ StepOf(last, "tree").outcome # "return"

\* C4 happens: every backend that was tried failed or was empty, the DOM
\* fallback is on, and find_elements returned the empty list
C4_Witness ==
    /\ last.op = "find_elements"
    /\ cfg.use_accessibility_tree /\ cfg.fallback_to_dom
    /\ Len(last.steps) = 3
    /\ last.steps[1].outcome = "BiDiNotAvailableError"
    /\ last.steps[2].outcome = "AccessibilityTreeError"
    /\ driver.dom = "raises"
    /\ last.kind = "return" /\ last.elements = <<>>

\* C5: a find_element call raises NoSuchElementException exactly when
\* find_elements with the same arguments, on the same engine, session and
\* page, returns an empty list; when that list is not empty it returns the
\* list's first element.
C5_FindOneFromFindMany ==
    [][last'.op = "find_element" =>
         \A r \in {find_elements(eng, cfg, driver, page, last'.role, last'.name, last'.kwargs)} :
            /\ (last'.kind = "NoSuchElementException") <=> (r.kind = "return" /\ r.elements = <<>>)
            /\ (r.kind = "return" /\ r.elements # <<>>) =>
                  (last'.kind = "return" /\ last'.element = r.elements[1])]_vars

\* C5 happens: of two buttons, find_element returned the first
C5_Witness ==
    /\ last.op = "find_element"
    /\ last.kind = "return"
    /\ Len(last.elements) = 2
    /\ last.element = last.elements[1]

\* C6 as the specification states it: the message of NoSuchElementException
\* contains the role, the name whenever one was passed, and the key and
\* value of every other filter.
C6_MessageNamesEveryFilter ==
    (last.op = "find_element" /\ last.kind = "NoSuchElementException") =>
        /\ contains(RoleValue(last.role), last.message)
        /\ last.name # PyNone => contains("name='" \o last.name.s \o "'", last.message)
        /\ \A i \in 1..Len(last.kwargs) :
              contains(last.kwargs[i].k \o "='" \o Format(last.kwargs[i].v) \o "'", last.message)

\* C7: once a call on the engine got BiDiNotAvailableError from the client,
\* or when the engine was built without a client, the engine holds no client
\* from then on and no later call on it tries the client.
C7_UnavailableIsTerminal ==
    [][/\ NotAvailableIn(last'.steps) => ~eng'.bidi_locator
       /\ ~eng.bidi_locator =>
             /\ ~eng'.bidi_locator
             /\ ~HasStep(last', "bidi")
             /\ last'.request = <<>> /\ ~last'.probed]_vars

\* C7 happens: the session had signalled 'not available', it now offers
\* BiDi, and a later call on the engine left the client alone
C7_Witness ==
    /\ IsCall
    /\ last.pre.signalled /\ ~last.pre.bidi_locator
    /\ driver.browsing_context = "ok"
    /\ ~HasStep(last, "bidi")

\* C8 as the specification states it: when the engine holds a client, every
\* call, with or without a name, enters the client first, and the client
\* issues a locate-nodes request with the role and, when given, the name.
\* (Stated for a non-empty role on a session that offers BiDi.)
C8_ClientAlwaysInvoked ==
    (/\ IsCall
     /\ last.pre.bidi_locator
     /\ RoleValue(last.role) # ""
     /\ driver.browsing_context # "absent")
    => /\ last.steps # <<>>
       /\ last.steps[1].backend = "bidi" /\ last.steps[1].entered
       /\ last.request # <<>>
       /\ \A i \in 1..Len(last.request) :
             /\ Get(last.request[i].locator, "role") = PyStr(RoleValue(last.role))
             /\ Truthy(last.name) =>
                   GetOrNone(last.request[i].locator, "name") = last.name

\* C9 as the specification states it: after one call on the session got the
\* 'not available' signal, no later call through the free functions or the
\* installed methods probes the session for BiDi or tries the client.
C9_AvailabilityComputedOnce ==
    (IsCall /\ last.via \in {"function", "method"} /\ last.pre.signalled) =>
        /\ ~last.probed
        /\ ~HasStep(last, "bidi")

SubsetOf(a, b) == \A i \in 1..Len(a) : \E j \in 1..Len(b) : b[j] = a[i]

\* C10: for the DOM fallback, the tree locator and the client's bridge, each
\* alone on one page, the elements selected for (role, name) are among the
\* elements selected for (role).
C10_NameNarrows ==
    /\ SubsetOf(out.dom_named, out.dom_plain)
    /\ SubsetOf(out.tree_named, out.tree_plain)
    /\ SubsetOf(out.bridge_named, out.bridge_plain)

\* C10 happens: the name selects some but not all of the role's elements in
\* the DOM fallback and in the bridge, and some in the tree
C10_Witness ==
    /\ out.dom_named # <<>> /\ Len(out.dom_named) < Len(out.dom_plain)
    /\ out.bridge_named # <<>> /\ Len(out.bridge_named) < Len(out.bridge_plain)
    /\ out.tree_named # <<>>

\* C11: a find_elements call repeated at once with the same arguments on the
\* same engine, session and page ends the same way and returns the same
\* elements in the same order, also when the first call made the engine drop
\* its client.
C11_Idempotent ==
    [][last'.op = "find_elements" =>
         \A r \in {find_elements(eng', cfg', driver', page', last'.role, last'.name,
                                 last'.kwargs)} :
            /\ r.kind = last'.kind
            /\ r.elements = last'.elements]_vars

\* C11 happens: the call made the engine drop its client and returned
\* elements another backend found
C11_Witness ==
    /\ last.op = "find_elements"
    /\ last.pre.bidi_locator /\ ~eng.bidi_locator
    /\ Len(last.elements) = 2

\* The role a node reports: the envelope's value or the plain string; "none"
\* for a node without role
ReportedRole(node_role) ==
    IF node_role = PyNone THEN [known |-> FALSE, v |-> ""]
    ELSE [known |-> TRUE, v |-> node_role.s]

\* The roles the specification counts as equivalent to the requested one
EquivalenceSet(role) ==
    IF role = "textbox" THEN {"textbox", "combobox", "searchbox"} ELSE {role}

\* C12: the tree locator's role test keeps a node exactly when the node's
\* role, read from the envelope or as a plain string, is in the requested
\* role's equivalence set: {textbox, combobox, searchbox} for textbox, the
\* requested string alone for a role without mapping.
C12_RoleTestUsesEquivalenceSet ==
    out.op = "role_test" =>
        (out.kept <=> (/\ ReportedRole(out.node_role).known
                       /\ ReportedRole(out.node_role).v \in EquivalenceSet(out.role)))

\* C12 happens: a node whose plain role is searchbox is kept for textbox
C12_Witness ==
    /\ out.op = "role_test"
    /\ out.role = "textbox" /\ out.node_role = PyStr("searchbox")
    /\ out.kept

\* C13 as the specification states it: every member of the role enumeration
\* has a non-empty CSS selector in ROLE_SELECTORS and a non-empty list of
\* role strings in ROLE_MAPPINGS.
C13_EveryRoleMapped ==
    out.op = "tables" => (out.selector # {} /\ out.mapping # <<>>)

\* C15: for a role without CSS selector and any filters the DOM fallback
\* returns the empty list and hands no query to the session.
C15_UnknownRoleYieldsNothing ==
    (out.op = "dom" /\ out.role \notin DOMAIN ROLE_SELECTORS) =>
        /\ out.elements = <<>>
        /\ out.queries = <<>>

\* C15 happens: the page shows a select, the DOM answers, and the DOM
\* fallback asked for combobox with a name filter returns nothing
C15_Witness ==
    /\ out.op = "dom"
    /\ out.role = "combobox" /\ HasKey(out.filters, "name")
    /\ driver.dom = "ok"
    /\ \E h \in Handles(page) : page[h].el.tag = "select"
    /\ out.elements = <<>>

\* A name source: whether it is present, and its trimmed value
Source(present, value) == [present |-> present, value |-> IF present THEN strip(value) ELSE ""]

\* The name sources of element h for the role, in the order of precedence
NameSources(pg, h, role) ==
    LET a == pg[h].el.attrs
        ref == IF Truthy(a["aria-labelledby"])
               THEN SelectSeq(Indices(Len(pg)),
                              LAMBDA i : pg[i].el.attrs["id"] = a["aria-labelledby"])
               ELSE <<>>
        for == IF Truthy(a["id"])
               THEN SelectSeq(Indices(Len(pg)),
                              LAMBDA i : pg[i].el.tag = "label" /\ pg[i].el.attrs["for"] = a["id"])
               ELSE <<>>
    IN << Source(Truthy(a["aria-label"]), a["aria-label"].s),
          Source(ref # <<>>, IF ref # <<>> THEN pg[ref[1]].el.text ELSE ""),
          Source(role \in {"button", "link"} /\ strip(pg[h].el.text) # "", pg[h].el.text),
          Source(for # <<>>, IF for # <<>> THEN pg[for[1]].el.text ELSE ""),
          Source(pg[h].el.ancestor_label # PyNone, pg[h].el.ancestor_label.s),
          Source(role = "textbox" /\ Truthy(a["placeholder"]), a["placeholder"].s),
          Source(Truthy(a["title"]), a["title"].s) >>

\* C14: the resolver returns the trimmed value of the first present source in
\* the order aria-label, aria-labelledby target text, own text (button and
\* link), label[for=id] text, ancestor label text, placeholder (textbox),
\* title, and None when no source is present; an aria-label wins over a
\* placeholder, and an aria-labelledby that names no element is skipped.
C14_NamePrecedence ==
    out.op = "name" =>
        LET srcs == NameSources(page, out.h, out.role)
            present == {i \in 1..Len(srcs) : srcs[i].present}
        IN /\ present = {} => out.name = PyNone
           /\ present # {} =>
                 out.name = PyStr(srcs[CHOOSE i \in present : \A j \in present : i <= j].value)
           /\ (Truthy(page[out.h].el.attrs["aria-label"])
               /\ Truthy(page[out.h].el.attrs["placeholder"]))
              => out.name = PyStr(strip(page[out.h].el.attrs["aria-label"].s))

\* C14 happens: a textbox with an aria-labelledby that names no element, a
\* label[for=id] and a placeholder resolves to the label's text
C14_Witness ==
    /\ out.op = "name" /\ out.role = "textbox"
    /\ page[out.h].el.attrs["aria-label"] = PyNone
    /\ page[out.h].el.attrs["aria-labelledby"] = PyStr("x")
    /\ page[out.h].el.attrs["id"] = PyStr("u")
    /\ page[out.h].el.attrs["placeholder"] = PyStr("Ph")
    /\ out.name = PyStr("Lf")

\* The configuration with the tree switched off and the DOM fallback on
DomOnlyConfig == LocatorConfig(FALSE, TRUE)

\* C16 as the specification states it: on the same page and for the same
\* role, find_elements of an engine configured with tree and DOM fallback
\* returns a list as long as find_elements of an engine configured with the
\* DOM fallback alone.
C16_SameLengthWithAndWithoutTree ==
    (/\ last.op = "find_elements"
     /\ cfg = DefaultConfig
     /\ last.name = PyNone /\ last.kwargs = <<>>
     /\ last.kind = "return")
    => \A r \in {find_elements(NewEngine(driver), DomOnlyConfig, driver, page,
                               last.role, PyNone, <<>>)} :
          /\ r.kind = "return"
          /\ Len(r.elements) = Len(last.elements)

\* The two attributes install_aria_methods assigns
WebDriverMethods == {"find_element_by_role", "find_elements_by_role"}

\* C17: installing when already installed, and uninstalling when nothing is
\* installed, are no-ops that raise nothing; after an install both methods are
\* on the class, after an uninstall neither is, whatever the order and number
\* of earlier installs and uninstalls
C17_InstallUninstallIdempotent ==
    /\ last.op = "install_aria_methods"
          => /\ last.kind = "return"
             /\ installed = WebDriverMethods
             /\ last.before = WebDriverMethods => installed = last.before
    /\ last.op = "uninstall_aria_methods"
          => /\ last.kind = "return"
             /\ installed = {}
             /\ last.before = {} => installed = last.before
    /\ install_methods(installed) = WebDriverMethods
    /\ install_methods(install_methods(installed)) = install_methods(installed)
    /\ uninstall_methods(installed) = [kind |-> "return", attrs |-> {}]
    /\ uninstall_methods(uninstall_methods(installed).attrs)
          = uninstall_methods(installed)
    /\ uninstall_methods(install_methods(installed)).attrs = {}
    /\ install_methods(uninstall_methods(installed).attrs) = WebDriverMethods

\* An uninstall ran while nothing was installed
C17_Witness ==
    /\ last.op = "uninstall_aria_methods"
    /\ last.before = {}
    /\ last.kind = "return"
    /\ installed = {}

\* C18: no operation of the engine changes a field of its configuration,
\* whatever the outcome of the operation
C18_ConfigNeverChanges ==
    [][/\ cfg'.use_accessibility_tree = cfg.use_accessibility_tree
       /\ cfg'.fallback_to_dom = cfg.fallback_to_dom
       /\ cfg'.timeout_seconds = cfg.timeout_seconds
       /\ cfg'.debug_mode = cfg.debug_mode]_vars

\* A call in which the tree failed and the DOM fallback then ran
C18_Witness ==
    /\ IsCall
    /\ HasStep(last, "tree") /\ StepOf(last, "tree").outcome # "return"
    /\ HasStep(last, "dom")
    /\ cfg = LocatorConfig(TRUE, TRUE)
    /\ last.kind \in {"return", "NoSuchElementException"}

\* Roles the client must refuse: the empty string and values that are not
\* strings
InvalidRoles == {PyStr(""), PyNone, PyBool(TRUE), PyBool(FALSE)}

\* C19: the client's find_elements raises ValueError for an empty or
\* non-string role before it looks at availability: nothing is probed, no
\* request is built and the client's cache stays as it was; an engine call
\* that reaches the client with such a role does not raise ValueError and
\* keeps its client
C19_InvalidRoleRejectedFirst ==
    /\ \A c \in {eng.client, NewClient}, role \in InvalidRoles,
          name \in NameArgs, kwargs \in FilterArgs :
          \A r \in {BiDi_find_elements(c, driver, page, role, name, 0, kwargs)} :
             /\ r.kind = "ValueError"
             /\ r.client = c
             /\ ~r.probed
             /\ r.request = <<>>
             /\ r.tried = <<>>
    /\ (/\ IsCall /\ last.via = "engine"
        /\ last.pre.bidi_locator
        /\ RoleValue(last.role) = ""
        /\ last.name = PyNone)
       => /\ last.steps # <<>>
          /\ last.steps[1] = Step("bidi", TRUE, "ValueError", <<>>)
          /\ last.kind # "ValueError"
          /\ ~last.probed
          /\ last.request = <<>>
          /\ eng.bidi_locator
          /\ eng.client = last.pre.client

\* An engine holding a client was called with an empty role, and a session
\* on which a fresh client with a valid role would have probed
C19_Witness ==
    /\ IsCall /\ last.via = "engine"
    /\ last.pre.bidi_locator
    /\ RoleValue(last.role) = ""
    /\ last.name = PyNone
    /\ last.steps[1].outcome = "ValueError"
    /\ Len(last.steps) > 1
    /\ is_available(NewClient, driver).probed

\* The last call was made on the engine and its client step ended in an
\* exception other than BiDiNotAvailableError
ClientFailedOtherwise ==
    /\ IsCall /\ last.via = "engine"
    /\ HasStep(last, "bidi")
    /\ StepOf(last, "bidi").outcome \notin {"return", "BiDiNotAvailableError"}

\* C20: after a client step that ended in an exception other than
\* BiDiNotAvailableError the call goes on with the next backend that is
\* switched on, the engine keeps its client, and the next call on the engine
\* tries the client again
C20_OtherErrorsKeepClient ==
    /\ [](ClientFailedOtherwise =>
            /\ eng.bidi_locator
            /\ eng.client = last.pre.client
            /\ cfg.use_accessibility_tree
                  => /\ Len(last.steps) >= 2
                     /\ last.steps[2].backend = "tree"
            /\ (~cfg.use_accessibility_tree /\ cfg.fallback_to_dom)
                  => /\ Len(last.steps) >= 2
                     /\ last.steps[2].backend = "dom"
            /\ last.kind \notin {"ValueError", "TypeError"})
    /\ [][(ClientFailedOtherwise /\ IsCall')
            => (last'.steps # <<>> /\ last'.steps[1].backend = "bidi")]_vars

\* An engine that had been called before (its client's cache is filled) was
\* called again, the client step ended in ValueError or TypeError, another
\* backend ran after it and the engine still holds its client
C20_Witness ==
    /\ ClientFailedOtherwise
    /\ Len(last.steps) >= 2
    /\ last.pre.client # NewClient
    /\ eng.bidi_locator

\* C21 as the specification states it: a source whose trimmed value is empty
\* counts as absent, so the resolver returns the trimmed value of the first
\* source in precedence that is not empty after trimming, None when there is
\* none, and never the empty string
C21_EmptySourceCountsAsAbsent ==
    out.op = "name" =>
        LET srcs == NameSources(page, out.h, out.role)
            filled == {i \in 1..Len(srcs) : srcs[i].present /\ srcs[i].value # ""}
        IN /\ out.name # PyStr("")
           /\ filled = {} => out.name = PyNone
           /\ filled # {} =>
                 out.name = PyStr(srcs[CHOOSE i \in filled : \A j \in filled : i <= j].value)

\* C22 as the specification states it: for a textbox none of whose other name
\* sources is present, the resolver returns the element's own text, trimmed,
\* when that text is not empty
C22_TextboxOwnTextLastResort ==
    (/\ out.op = "name" /\ out.role = "textbox"
     /\ \A i \in 1..Len(NameSources(page, out.h, out.role)) :
           ~NameSources(page, out.h, out.role)[i].present
     /\ strip(page[out.h].el.text) # "")
    => out.name = PyStr(strip(page[out.h].el.text))

\* The elements the DOM fallback's selector for the role matches on the page
Candidates(pg, role) == QuerySelectorAll(pg, RoleSelector(role))

\* C23: the DOM fallback keeps every candidate of the selector when there is
\* no filter; otherwise it keeps exactly the candidates for which there is no
\* name filter or the resolved name equals the expected name, letter case
\* included; other filter keys remove nothing
C23_DomKeepsByNameOnly ==
    (out.op = "dom" /\ driver.dom = "ok" /\ RoleSelector(out.role) # {})
    => /\ out.filters = <<>> => out.elements = Candidates(page, out.role)
       /\ out.elements =
             SelectSeq(Candidates(page, out.role),
                       LAMBDA h : \/ ~HasKey(out.filters, "name")
                                  \/ _get_accessible_name(page, h, out.role)
                                        = Get(out.filters, "name"))
       /\ out.elements =
             _find_via_dom(driver, page, out.role,
                           SelectSeq(out.filters, LAMBDA e : e.k = "name"))

\* A lookup with a name and other filter keys kept some candidates and
\* dropped others
C23_Witness ==
    /\ out.op = "dom" /\ driver.dom = "ok"
    /\ HasKey(out.filters, "name") /\ Len(out.filters) > 1
    /\ out.elements # <<>>
    /\ Len(out.elements) < Len(Candidates(page, out.role))

\* C24: the tree locator issues DOM.enable, Runtime.enable,
\* Accessibility.enable and the tree fetch in this order; when one of them
\* fails nothing is issued after it, the locator raises
\* AccessibilityTreeError and yields no element; otherwise it returns
C24_EnableBeforeFetch ==
    out.op = "tree" =>
        LET failing == {i \in 1..4 : CdpFails(driver, TREE_COMMANDS[i])}
            cmds == out.result.cmds
        IN /\ TREE_COMMANDS = <<"DOM.enable", "Runtime.enable", "Accessibility.enable",
                                "Accessibility.getFullAXTree">>
           /\ cmds = SubSeq(TREE_COMMANDS, 1, Len(cmds))
           /\ failing = {} => /\ cmds = TREE_COMMANDS
                              /\ out.result.kind = "return"
           /\ \A i \in failing :
                 /\ Len(cmds) <= i
                 /\ out.result.kind = "AccessibilityTreeError"
                 /\ out.result.elements = <<>>

\* Runtime.enable failed on a page that holds a button the locator would
\* otherwise have returned
C24_Witness ==
    /\ out.op = "tree" /\ out.role = "button" /\ out.filters = <<>>
    /\ driver.cdp = "Runtime.enable"
    /\ out.result.kind = "AccessibilityTreeError"
    /\ out.result.cmds = <<"DOM.enable", "Runtime.enable">>
    /\ _process_tree_nodes(driver, page, AXTree(page), "button", <<>>) # <<>>

\* The value the node reports for the property: that of the first property of
\* this name, taken out of its envelope; None when there is no such property
Reported(node, key) ==
    LET at == {i \in 1..Len(node.properties) : node.properties[i].name = key}
        raw == node.properties[CHOOSE i \in at : \A j \in at : i <= j].value
    IN IF at = {} THEN PyNone
       ELSE IF raw.t = "dict" THEN ValueOf(raw) ELSE raw

\* The string true in any letter case and the boolean true are true, every
\* other value is false
Coerced(v) ==
    PyBool(\/ v.t = "bool" /\ v.b
           \/ v.t = "str" /\ v.s \in {"true", "True", "TRUE", "tRUE", "trUE", "truE"})

\* The node passes every filter
Survives(node, filters) ==
    \A i \in 1..Len(filters) :
       IF filters[i].v.t = "bool"
       THEN Coerced(Reported(node, filters[i].k)) = filters[i].v
       ELSE Reported(node, filters[i].k) = filters[i].v

\* C25: the tree locator returns the handles of exactly the nodes of the
\* requested role that resolve and whose reported property value equals the
\* expected value for every filter key, after coercion to a boolean when the
\* expected value is a boolean
C25_NodeFilterSemantics ==
    (out.op = "tree" /\ out.result.kind = "return")
    => LET kept == SelectSeq(AXTree(page), LAMBDA h :
                      /\ _node_has_role(page[h].ax,
                                        IF out.role \in DOMAIN ROLE_MAPPINGS
                                        THEN ROLE_MAPPINGS[out.role] ELSE <<out.role>>)
                      /\ Survives(page[h].ax, out.filters)
                      /\ _convert_node_to_element(driver, page, h) # 0)
       IN out.result.elements
             = [i \in 1..Len(kept) |-> _convert_node_to_element(driver, page, kept[i])]

\* A lookup for checked checkboxes on a page with a node that reports TRUE as
\* a plain string and a node that reports mixed: one of the two is kept
C25_Witness ==
    /\ out.op = "tree" /\ out.role = "checkbox"
    /\ out.filters = <<[k |-> "checked", v |-> PyBool(TRUE)]>>
    /\ page = <<CheckedNode(PyStr("TRUE")), CheckedNode(Envelope("tristate", PyStr("mixed")))>>
    /\ out.result.elements = <<1>>

\* The resolution methods in the order the locator is to try them
MethodOrder == <<"direct", "selector", "script">>

\* C26: for a node with a backend id the methods are tried in the order direct
\* resolution, selector, script; every method tried before the last one
\* tried produced no handle; the methods stop at the first handle, which is
\* what the resolution returns, and all three are tried when none produces one
C26_ResolutionOrder ==
    (out.op = "resolve" /\ page[out.h].ax.has_backend)
    => /\ Len(out.tried) \in 1..3
       /\ \A i \in 1..Len(out.tried) : out.tried[i].method = MethodOrder[i]
       /\ \A i \in 1..(Len(out.tried) - 1) : out.tried[i].element = 0
       /\ out.element = out.tried[Len(out.tried)].element
       /\ Len(out.tried) < 3 => out.element # 0
       /\ out.tried[1] = ResolveDirect(page, out.h)
       /\ Len(out.tried) >= 2 => out.tried[2] = ResolveBySelector(driver, page, out.h)
       /\ Len(out.tried) = 3 => out.tried[3] = ResolveByScript(page, out.h)

\* Direct resolution raised, the selector's query raised, and the script
\* found the element
C26_Witness ==
    /\ out.op = "resolve"
    /\ Len(out.tried) = 3
    /\ out.tried[1].outcome = "raises"
    /\ out.tried[2].outcome = "raises"
    /\ out.tried[3].outcome = "element"
    /\ out.element # 0

\* The nodes of the page, in tree order, that have the role and pass the filters
MatchingNodes(pg, role, filters) ==
    SelectSeq(AXTree(pg), LAMBDA h :
       /\ _node_has_role(pg[h].ax, IF role \in DOMAIN ROLE_MAPPINGS
                                   THEN ROLE_MAPPINGS[role] ELSE <<role>>)
       /\ _node_matches_filters(pg[h].ax, filters))

\* The node has no backend id, or none of the three methods produced a handle
Unresolvable(drv, pg, h) ==
    \/ ~pg[h].ax.has_backend
    \/ /\ ResolveDirect(pg, h).element = 0
       /\ ResolveBySelector(drv, pg, h).element = 0
       /\ ResolveByScript(pg, h).element = 0

\* C27: a matching node without backend id, or one that no method resolves,
\* is left out without an exception: when the tree can be fetched the locator
\* returns, with one handle for each matching node that resolves
C27_UnresolvableDroppedSilently ==
    (out.op = "tree" /\ \A i \in 1..Len(TREE_COMMANDS) : ~CdpFails(driver, TREE_COMMANDS[i]))
    => LET matching == MatchingNodes(page, out.role, out.filters)
           resolved == SelectSeq(matching, LAMBDA h : ~Unresolvable(driver, page, h))
       IN /\ out.result.kind = "return"
          /\ Len(out.result.elements) = Len(resolved)
          /\ \A i \in 1..Len(resolved) :
                \E j \in 1..Len(out.result.elements) :
                   out.result.elements[j] = _convert_node_to_element(driver, page, resolved[i])

\* Every method raises for the first button of the page, and the second one
\* is returned
C27_Witness ==
    /\ out.op = "tree" /\ out.role = "button" /\ out.filters = <<>>
    /\ page = <<DeadButton, MuteButton>>
    /\ out.result.kind = "return"
    /\ out.result.elements = <<2>>

\* C28: the handles come in the order of the nodes in the fetched tree: the
\* i-th handle is that of the i-th matching node that resolves
C28_TreeOrderPreserved ==
    (out.op = "tree" /\ out.result.kind = "return")
    => LET resolved == SelectSeq(MatchingNodes(page, out.role, out.filters),
                                 LAMBDA h : _convert_node_to_element(driver, page, h) # 0)
       IN /\ Len(out.result.elements) = Len(resolved)
          /\ \A i \in 1..Len(resolved) :
                out.result.elements[i] = _convert_node_to_element(driver, page, resolved[i])

\* Two buttons that resolve to different handles are returned in tree order
C28_Witness ==
    /\ out.op = "tree" /\ out.role = "button"
    /\ page = <<PlayButton, MuteButton>>
    /\ out.result.elements = <<1, 2>>

\* The availability flag of the engine's client: None while unknown
Flag == eng.client._bidi_available

\* C29: the client's availability flag leaves None only through a probe of
\* the session, to True or False; once set, it keeps its value for as long as
\* the engine holds the client, and is_available answers with it on every
\* session without asking the session again
C29_AvailabilityCachedForGood ==
    /\ [](Flag # PyNone =>
            \A d \in Sessions :
               is_available(eng.client, d)
                  = [ret |-> Flag.b, client |-> eng.client, probed |-> FALSE])
    /\ [](\A d \in Sessions :
            \A first \in {is_available(NewClient, driver)} :
               /\ first.probed
               /\ first.client._bidi_available = PyBool(first.ret)
               /\ is_available(first.client, d)
                     = [ret |-> first.ret, client |-> first.client, probed |-> FALSE])
    /\ [][(Flag # PyNone /\ eng'.bidi_locator) => Flag' = Flag]_vars
    /\ [][(Flag = PyNone /\ Flag' # PyNone) => (last'.probed /\ Flag'.t = "bool")]_vars

\* A call on a client that had found BiDi available, after the session lost
\* the capability: the client was entered and did not ask the session
C29_Witness ==
    /\ IsCall /\ last.via = "engine"
    /\ last.pre.bidi_locator
    /\ last.pre.client._bidi_available = PyBool(TRUE)
    /\ driver.browsing_context = "absent" /\ driver.bidi_connection = "absent"
    /\ last.steps # <<>> /\ last.steps[1].backend = "bidi" /\ last.steps[1].entered
    /\ ~last.probed

\* C30: the locator value holds role with the requested role; it holds name
\* only when a name was given, and then that name; every other key it holds
\* is a supported attribute that was supplied, with the supplied value; every
\* supported attribute supplied is in it, and no key occurs twice
C30_LocatorForwardsWhitelistOnly ==
    out.op = "locator" =>
        /\ SUPPORTED_ACCESSIBILITY_ATTRIBUTES
              = {"checked", "pressed", "expanded", "level", "disabled", "readonly", "required"}
        /\ HasKey(out.value, "role") /\ Get(out.value, "role") = PyStr(out.role)
        /\ HasKey(out.value, "name")
              => (out.name # PyNone /\ Get(out.value, "name") = out.name)
        /\ \A i \in 1..Len(out.value) :
              \/ out.value[i].k \in {"role", "name"}
              \/ /\ out.value[i].k \in SUPPORTED_ACCESSIBILITY_ATTRIBUTES
                 /\ \E j \in 1..Len(out.filters) : out.filters[j] = out.value[i]
        /\ \A j \in 1..Len(out.filters) :
              out.filters[j].k \in SUPPORTED_ACCESSIBILITY_ATTRIBUTES
                 => \E i \in 1..Len(out.value) : out.value[i] = out.filters[j]
        /\ \A i, j \in 1..Len(out.value) : out.value[i].k = out.value[j].k => i = j

\* A locator built from a name, two supported and two unsupported keys
C30_Witness ==
    /\ out.op = "locator"
    /\ out.name = PyStr("Mu")
    /\ Len(out.filters) = 4
    /\ Len(out.value) = 4
    /\ HasKey(out.value, "checked") /\ HasKey(out.value, "level")
    /\ ~HasKey(out.value, "hidden") /\ ~HasKey(out.value, "busy")

-----------------------------------------------------------------------------
(* Properties of the client's transports *)

\* The transport the k-th strategy stands for answers on session drv
Yields(k, drv) ==
    CASE k = 1 -> drv.browsing_context = "ok"
      [] k = 2 -> drv.execute_bidi_command = "ok"
      [] k = 3 -> drv.bidi_connection \in {"execute", "send"}
      [] k = 4 -> drv.cdp = "ok"

\* The transport the k-th strategy stands for raises on session drv
Raises(k, drv) ==
    CASE k = 1 -> drv.browsing_context = "raises"
      [] k = 2 -> drv.execute_bidi_command = "raises"
      [] k = 3 -> drv.bidi_connection = "raises"
      [] k = 4 -> drv.cdp = "raises"

Least(S) == CHOOSE k \in S : \A j \in S : k <= j

Greatest(S) == CHOOSE k \in S : \A j \in S : k >= j

\* C31: a locate-nodes command tries native binding, direct command, legacy
\* connection and bridge in that order; it returns the answer of the first
\* transport that answers and tries none after it; a transport that raises
\* or yields nothing hands over to the next; when none answers the command
\* raises BiDiNotAvailableError, and its message ends with the error of the
\* last transport that raised, if one raised
C31_FirstAnsweringStrategyWins ==
    out.op = "execute" =>
        LET r == out.result
            answering == {k \in 1..4 : Yields(k, driver)}
            raising == {k \in 1..4 : Raises(k, driver)}
            failed == "All BiDi execution strategies failed for method '"
                      \o "browsingContext.locateNodes" \o "'"
        IN IF answering # {}
           THEN /\ r.kind = "return"
                /\ r.tried = [i \in 1..Least(answering) |-> i]
                /\ r.nodes = Strategy(Least(answering), driver, page, out.method,
                                      out.params).nodes
           ELSE /\ r.kind = "BiDiNotAvailableError"
                /\ r.tried = <<1, 2, 3, 4>>
                /\ raising # {} =>
                      r.message = failed \o ". Last error: " \o ErrorText(Greatest(raising))
                /\ raising = {} => r.message = failed

\* C31 happens: the native binding raised, the direct command yielded
\* nothing, the legacy connection answered and the bridge, which would have
\* answered, was not tried
C31_Witness ==
    /\ out.op = "execute"
    /\ driver.browsing_context = "raises"
    /\ driver.execute_bidi_command = "none"
    /\ driver.bidi_connection = "send"
    /\ driver.cdp = "ok"
    /\ out.result.kind = "return"
    /\ out.result.tried = <<1, 2, 3>>
    /\ out.result.nodes # <<>>

\* a and b are the same string up to the case of their letters
SameIgnoringCase(a, b) ==
    /\ Len(a) = Len(b)
    /\ \A i \in 1..Len(a) : LowerChar(SubSeq(a, i, i)) = LowerChar(SubSeq(b, i, i))

\* sub occurs in s up to the case of the letters
InsideIgnoringCase(sub, s) ==
    \E i \in 1..(Len(s) - Len(sub) + 1) : SameIgnoringCase(sub, SubSeq(s, i, i + Len(sub) - 1))

\* The command was answered by the bridge
ServedByBridge == out.op = "execute" /\ out.result.kind = "return" /\ out.result.tried = <<1, 2, 3, 4>>

\* The handles of the nodes a command's answer holds
Kept == {out.result.nodes[i].h : i \in 1..Len(out.result.nodes)}

\* C32 as the specification states it: the bridge keeps a node of the tree
\* if and only if the node's role equals the requested role exactly and, when
\* the request names a name, that name occurs in the node's name up to case.
C32_BridgeKeepsExactRole ==
    ServedByBridge =>
        \A h \in 1..Len(page) :
           h \in Kept
              <=> /\ ValueOf(page[h].ax.role) = Get(out.params.locator, "role")
                  /\ HasKey(out.params.locator, "name")
                        => InsideIgnoringCase(Get(out.params.locator, "name").s,
                                              ValueOf(page[h].ax.name).s)

\* What the bridge does: it also keeps a node when the type of the node's role
\* value equals the requested role
BridgeKeepsRoleOrType ==
    ServedByBridge =>
        \A h \in 1..Len(page) :
           h \in Kept
              <=> /\ \/ ValueOf(page[h].ax.role) = Get(out.params.locator, "role")
                     \/ page[h].ax.role.ty = Get(out.params.locator, "role").s
                  /\ HasKey(out.params.locator, "name")
                        => InsideIgnoringCase(Get(out.params.locator, "name").s,
                                              ValueOf(page[h].ax.name).s)

\* C33 as the specification states it: every locate-nodes request of a
\* find_elements call on the client names, as its context, the window that is
\* the session's current one when the call is made, whatever calls and window
\* switches came before.
C33_RequestTargetsCurrentWindow ==
    (out.op = "find" /\ out.request # <<>>) => out.request[1].context = out.window

\* C34 as the specification states it: on the same page, session and engine,
\* the elements find_elements returns for a role and a name are among those
\* it returns for the role alone, whichever backends serve the two calls.
C34_NamedWithinPlain ==
    (out.op = "find_elements" /\ out.name # PyNone /\ out.kind = "return")
    => \A r \in {find_elements(eng, cfg, driver, page, [enum |-> FALSE, v |-> out.role],
                               PyNone, <<>>)} :
          r.kind = "return" => SubsetOf(out.elements, r.elements)

\* The client executed a locate-nodes request in the engine's last call
Executed == IsCall /\ last.via = "engine" /\ last.request # <<>>

\* C35 as the specification states it: whenever a transport strategy fails
\* while the client executes a request, the engine receives
\* BiDiNotAvailableError and gives the client up.
C35_AnyStrategyFailureSignals ==
    (Executed /\ \E k \in 1..4 : Raises(k, driver))
    => /\ StepOf(last, "bidi").outcome = "BiDiNotAvailableError"
       /\ ~eng.bidi_locator

\* C35, amended: a request that no transport answers reaches the engine as
\* BiDiNotAvailableError and the engine gives the client up; a request that
\* some transport answers returns and the engine keeps the client, also when
\* a transport tried before it raised.  Once the engine has given the client
\* up it never holds one again and no later call enters the client, whatever
\* the session has become.
C35_UnansweredRequestDisablesClient ==
    /\ [](Executed =>
            IF \E k \in 1..4 : Yields(k, driver)
            THEN /\ StepOf(last, "bidi").outcome = "return"
                 /\ eng.bidi_locator
            ELSE /\ StepOf(last, "bidi").outcome = "BiDiNotAvailableError"
                 /\ ~eng.bidi_locator)
    /\ [][~eng.bidi_locator => (~eng'.bidi_locator /\ (IsCall' => ~HasStep(last', "bidi")))]_vars

\* C35 happens: the client had failed a request before, the session has
\* become one whose native binding answers, and the call did not enter the
\* client
C35_Witness ==
    /\ IsCall /\ last.via = "engine"
    /\ last.pre.signalled /\ ~last.pre.bidi_locator
    /\ driver.browsing_context = "ok"
    /\ ~HasStep(last, "bidi")
    /\ last.steps # <<>>

\* C36 as the specification states it: the handle a node of the tree resolves
\* to is that of the node's own element, by whichever method it was found,
\* and the handles the locator returns for distinct matching nodes are distinct.
C36_HandleIsTheNodesElement ==
    /\ out.op = "resolve" => out.element \in {0, out.h}
    /\ (out.op = "tree" /\ out.result.kind = "return")
          => \A i, j \in 1..Len(out.result.elements) :
                i # j => out.result.elements[i] # out.result.elements[j]

\* C37 as the specification states it: when a find_elements call of the
\* client with the filter checked=True is answered by the bridge, every node
\* the bridge keeps for the call's request reports checked as true.
C37_BridgeHonoursAttributeFilter ==
    (/\ out.op = "find" /\ out.kind = "return"
     /\ out.tried = <<1, 2, 3, 4>>
     /\ HasKey(out.filters, "checked"))
    => \A o \in {_try_cdp_bridge(driver, page, BIDI_LOCATE_NODES_METHOD, out.request[1])} :
          \A i \in 1..Len(o.nodes) : Survives(page[o.nodes[i].h].ax, out.filters)

\* C38 as the specification states it: the tree locator, asked for a role
\* and the name X, keeps every node of that role whose name field is X,
\* whether or not the node's property list has an entry called name.
C38_NameFieldKept ==
    out.role # "" =>
        \A h \in 1..Len(page) :
           (/\ page[h].ax.present
            /\ ValueOf(page[h].ax.role) = PyStr(out.role)
            /\ ValueOf(page[h].ax.name) = out.name
            /\ page[h].ax.has_backend /\ page[h].ax.resolve = "ok")
           => \E j \in 1..Len(out.tree_named) : out.tree_named[j] = h

\* The node lists a property called key
Declares(node, key) == \E i \in 1..Len(node.properties) : node.properties[i].name = key

\* C39 as the specification states it: with the filter checked=False the
\* tree locator returns only elements whose node lists the property checked,
\* with a value that is not true; a node that does not list it is dropped.
C39_FalseFilterNeedsDeclaredProperty ==
    (/\ out.op = "tree" /\ out.result.kind = "return"
     /\ out.filters = <<[k |-> "checked", v |-> PyBool(FALSE)]>>)
    => \A j \in 1..Len(out.result.elements) :
          /\ Declares(page[out.result.elements[j]].ax, "checked")
          /\ Coerced(Reported(page[out.result.elements[j]].ax, "checked")) = PyBool(FALSE)

====
